---- MODULE Spec2Model ----
(***************************************************************************)
(* Model of the Sentinel transaction firewall: the scan pipeline of        *)
(* EvmExecutor.simulateTransaction and the analyzers it calls              *)
(* (SecurityAnalyzer, AdvancedSimulator / TimeTravelAnalyzer /             *)
(* CounterfactualAnalyzer, ScanHistory, the verdict table) and the /rpc    *)
(* handler that wraps it.                                                  *)
(*                                                                         *)
(* Abstractions: a deployed bytecode is the set of catalogue entries whose *)
(* selector occurs in it; a byte string returned by owner() is its length  *)
(* plus whether all its bytes, resp. its last 20 bytes, are zero; a flag   *)
(* is the pair <<label, argument>> of the text the code formats; a         *)
(* probability p is the integer 100*p.                                     *)
(***************************************************************************)
EXTENDS Integers, Sequences, FiniteSets, TLC

VARIABLES
    pc,          \* position of the scan (or of the analysed function)
    request,     \* the transaction request being scanned
    evm,         \* the forked EVM of simulateTransaction: code held for `to`
    status,      \* status of the baseline call
    ownerRet,    \* the returnValue the ownership check interprets
    report,      \* securityReport
    tt,          \* TimeTravelResult
    cf,          \* CounterfactualResult
    adv,         \* advancedAnalysis (overall score, isScam)
    drift,       \* driftAnalysis
    history,     \* history:<address> list of the History Store, newest first
    ml,          \* mlAnalysisResult
    response,    \* what the /rpc handler sent
    todo,        \* loop position: what a running loop still has to visit
    clock,       \* Date.now()
    oracle,      \* what the chain and its RPC endpoints hold and answer
    scans,       \* the scans of one address: their locals and their results
    tracer,      \* OpcodeTracer: its fields and the events it emitted
    proxy        \* ProxyDetector: the implementation chain being resolved

vars == <<pc, request, evm, status, ownerRet, report, tt, cf, adv, drift,
          history, ml, response, todo, clock, oracle, scans, tracer, proxy>>

\* the state of the components a specification does not exercise
elsewhere == <<clock, oracle, scans, tracer, proxy>>

Elsewhere ==
    /\ clock = 0
    /\ oracle = "none"
    /\ scans = <<>>
    /\ tracer = "none"
    /\ proxy = "none"

---------------------------------------------------------------------------
\* Bounds of the model

\* the scanned bytecode holds selectors among the first MaxSel catalogue entries
MaxSel == 2
\* a contract's outcome changes at most MaxSwitches times along the timeline
MaxSwitches == 1
\* a flag list handed to generateCapabilityHash holds at most MaxFlags flags
MaxFlags == 3
\* one address is scanned at most MaxScans times in a row
MaxScans == 101
\* the chain holds MaxAddr contracts that may point at one another as proxies
MaxAddr == 3
\* an execution traced by the OpcodeTracer runs at most MaxSteps opcodes
MaxSteps == 3

---------------------------------------------------------------------------
\* Values

ZeroAddress == "0x0000000000000000000000000000000000000000"
OwnerAddr == "0xowner"
SenderAddr == "0xsender"
RandomAddr == "0xrandom"
DeployerAddr == "0xdeployer"
NoAddress == "undefined"

Flag(label, arg) == <<label, arg>>

SeqToSet(s) == {s[i] : i \in 1..Len(s)}

Max(a, b) == IF a >= b THEN a ELSE b
Min(a, b) == IF a <= b THEN a ELSE b

---------------------------------------------------------------------------
\* SecurityAnalyzer.analyze

suspiciousPatterns == <<
    [name |-> "blacklist(address)",          selector |-> "f9f92be4", risk |-> 50],
    [name |-> "pause()",                     selector |-> "8456cb59", risk |-> 30],
    [name |-> "_pause()",                    selector |-> "2f2b3887", risk |-> 30],
    [name |-> "enableTrading()",             selector |-> "8a8c523c", risk |-> 20],
    [name |-> "openTrading()",               selector |-> "c9044b7d", risk |-> 20],
    [name |-> "setFee(uint256)",             selector |-> "69fe0e2d", risk |-> 25],
    [name |-> "setTaxFeePercent(uint256)",   selector |-> "061c82d0", risk |-> 25],
    [name |-> "setMarketingFee(uint256)",    selector |-> "2323cc66", risk |-> 20],
    [name |-> "updateFees(uint256,uint256)", selector |-> "37b8d80f", risk |-> 20],
    [name |-> "mint(address,uint256)",       selector |-> "40c10f19", risk |-> 60],
    [name |-> "_mint(address,uint256)",      selector |-> "9c0f929c", risk |-> 60],
    [name |-> "removeLiquidity",             selector |-> "78265506", risk |-> 90],
    [name |-> "removeLiquidityETH",          selector |-> "af2979eb", risk |-> 90],
    [name |-> "drain()",                     selector |-> "d040220a", risk |-> 100],
    [name |-> "withdrawETH()",               selector |-> "474cf53d", risk |-> 50],
    [name |-> "_transfer",                   selector |-> "30e0789e", risk |-> 40],
    [name |-> "_beforeTokenTransfer",        selector |-> "38d52e0f", risk |-> 30],
    [name |-> "setMaxTxAmount",              selector |-> "83151877", risk |-> 20] >>

\* the report analyze() starts from
EmptyReport ==
    [isHoneypot |-> FALSE, ownershipStatus |-> "Unknown", riskScore |-> 0,
     flags |-> <<>>, ownerAddress |-> NoAddress, friendlyExplanation |-> ""]

\* a byte string: its length, whether every byte is 0, whether its last 20
\* bytes are 0, and the address its last 20 bytes spell
Bytes(len, allZero, tailZero) ==
    [len |-> len, allZero |-> allZero, tailZero |-> tailZero,
     addr |-> IF tailZero THEN ZeroAddress ELSE OwnerAddr]

EmptyBytes == Bytes(0, TRUE, TRUE)

\* the return values owner() is modelled to give: nothing, 4 bytes of
\* revert data, a 20-byte or 32-byte word (zero, an address, or a zero
\* address under non-zero high bytes), 64 bytes
ReturnValues ==
    { EmptyBytes, Bytes(4, FALSE, FALSE),
      Bytes(20, TRUE, TRUE), Bytes(20, FALSE, FALSE),
      Bytes(32, TRUE, TRUE), Bytes(32, FALSE, TRUE), Bytes(32, FALSE, FALSE),
      Bytes(64, TRUE, TRUE), Bytes(64, FALSE, FALSE) }

\* provider.call for owner(): it throws, or it returns a byte string
RpcReplies == {[ok |-> FALSE, ret |-> EmptyBytes]} \cup
              {[ok |-> TRUE, ret |-> r] : r \in ReturnValues}

\* 1. Analyze Simulation Result
AnalyzeSimulationResult(rep, st) ==
    IF st = "Reverted"
    THEN [rep EXCEPT !.flags = Append(@, Flag("Simulation Reverted", "")),
                     !.riskScore = @ + 20]
    ELSE rep

\* 2. the returnValue the ownership check ends up with: the EVM's, or the
\* chain's when the EVM's is empty or zero and a provider answered non-"0x"
OwnerReturnValue(evmRet, hasProvider, rpc) ==
    LET isEvmZero == evmRet.len = 0 \/ evmRet.allZero
    IN  IF isEvmZero /\ hasProvider /\ rpc.ok /\ rpc.ret.len > 0
        THEN rpc.ret
        ELSE evmRet

\* the interpretation with the zero test made on the whole returnValue, the
\* 12 padding bytes of a 32-byte word included
OwnershipOfWholeWord(rep, ret) ==
    IF ret.len >= 20
    THEN LET ownerLen == IF ret.len = 32 THEN 20 ELSE ret.len
         IN  IF ownerLen # 20 THEN rep
             ELSE IF ret.allZero
             THEN [rep EXCEPT !.ownershipStatus = "Renounced",
                              !.flags = Append(@, Flag("Ownership Renounced (Safe)", ""))]
             ELSE [rep EXCEPT !.ownershipStatus = "Centralized",
                              !.ownerAddress = ret.addr,
                              !.flags = Append(@, Flag("Contract has an Owner", ret.addr)),
                              !.riskScore = @ + 10]
    ELSE rep

\* 2. interpretation of the returnValue. new Address(bytes) throws unless it
\* is given exactly 20 bytes; the throw is caught and leaves the report as is
OwnershipOf(rep, ret) ==
    IF ret.len >= 20
    THEN LET ownerLen == IF ret.len = 32 THEN 20 ELSE ret.len
             isZero   == IF ret.len = 32 THEN ret.tailZero ELSE ret.allZero
         IN  IF ownerLen # 20 THEN rep
             ELSE IF isZero
             THEN [rep EXCEPT !.ownershipStatus = "Renounced",
                              !.flags = Append(@, Flag("Ownership Renounced (Safe)", ""))]
             ELSE [rep EXCEPT !.ownershipStatus = "Centralized",
                              !.ownerAddress = ret.addr,
                              !.flags = Append(@, Flag("Contract has an Owner", ret.addr)),
                              !.riskScore = @ + 10]
    ELSE rep

\* 3. Bytecode Analysis: one pass over the catalogue, in its order
RECURSIVE ScanPatterns(_, _, _)
ScanPatterns(rep, code, i) ==
    IF i > Len(suspiciousPatterns) THEN rep
    ELSE ScanPatterns(
            IF i \in code
            THEN [rep EXCEPT
                    !.flags = Append(@, Flag("Suspicious Function", suspiciousPatterns[i].name)),
                    !.riskScore = @ + suspiciousPatterns[i].risk,
                    !.isHoneypot = TRUE]
            ELSE rep,
            code, i + 1)

BytecodeAnalysis(rep, code) == ScanPatterns(rep, code, 1)

\* SecurityAnalyzer.analyze; evmThrows: evm.runCall of owner() threw
Analyze(st, evmThrows, evmRet, hasProvider, rpc, code) ==
    LET r1 == AnalyzeSimulationResult(EmptyReport, st)
        r2 == IF evmThrows THEN r1
              ELSE OwnershipOf(r1, OwnerReturnValue(evmRet, hasProvider, rpc))
    IN  BytecodeAnalysis(r2, code)

---------------------------------------------------------------------------
\* Time-travel simulation (AdvancedSimulator.runTimeTravelSimulation and
\* TimeTravelAnalyzer.runTimeTravelSimulation run the same code)

timeOffsets == <<
    [seconds |-> 0,       description |-> "Current Block"],
    [seconds |-> 3600,    description |-> "+1 Hour"],
    [seconds |-> 86400,   description |-> "+1 Day"],
    [seconds |-> 604800,  description |-> "+7 Days"],
    [seconds |-> 2592000, description |-> "+30 Days"],
    [seconds |-> -86400,  description |-> "-1 Day (Past)"] >>

\* what one simulated run gives: no outcome (createForkedEVM returned
\* success = false), or the status executeWithTimestamp returns
NoRun == "none"
Statuses == {"Success", "Reverted"}
RunResults == {NoRun} \cup Statuses

NewTimeTravelResult ==
    [isTimeSensitive |-> FALSE, currentBlockResult |-> "Reverted",
     futureResults |-> <<>>, summary |-> "", riskFlags |-> <<>>]

\* the current-block run: no EVM ends the simulation with the initial result
TimeTravelCurrent(run) ==
    IF run = NoRun
    THEN [NewTimeTravelResult EXCEPT
            !.summary = "Failed to create forked EVM for current block"]
    ELSE [NewTimeTravelResult EXCEPT !.currentBlockResult = run]

\* the iteration with only the future offsets marking the result
\* time-sensitive
TimeTravelStepFutureOnly(result, offset, run) ==
    IF offset.seconds = 0 \/ run = NoRun THEN result
    ELSE LET diverges == run # result.currentBlockResult
         IN  [result EXCEPT
                !.futureResults = Append(@,
                    [offsetDescription |-> offset.description,
                     offsetSeconds |-> offset.seconds,
                     status |-> run,
                     divergesFromCurrent |-> diverges]),
                !.isTimeSensitive = @ \/ (diverges /\ offset.seconds > 0)]

\* one iteration of the loop over timeOffsets
TimeTravelStep(result, offset, run) ==
    IF offset.seconds = 0 \/ run = NoRun THEN result
    ELSE LET diverges == run # result.currentBlockResult
         IN  [result EXCEPT
                !.futureResults = Append(@,
                    [offsetDescription |-> offset.description,
                     offsetSeconds |-> offset.seconds,
                     status |-> run,
                     divergesFromCurrent |-> diverges]),
                !.isTimeSensitive = @ \/ diverges]

\* the flags with the 7-day window taken exclusive (< 604800)
TimeTravelFlagsOfExclusive(currentSuccess, future) ==
    LET futureSuccess == future.status = "Success"
    IN  IF ~future.divergesFromCurrent THEN <<>>
        ELSE IF currentSuccess /\ ~futureSuccess
        THEN IF future.offsetSeconds > 0
             THEN <<Flag("TIME-BOMB", future.offsetDescription)>> \o
                  (IF future.offsetSeconds < 604800
                   THEN <<Flag("CRITICAL", "Fails within 7 days - possible honeypot activation")>>
                   ELSE <<>>)
             ELSE <<>>
        ELSE IF ~currentSuccess /\ futureSuccess
        THEN IF future.offsetSeconds > 0
             THEN <<Flag("DELAYED TRADING", future.offsetDescription)>> \o
                  (IF future.offsetSeconds > 86400
                   THEN <<Flag("WARNING", "Extended trading delay - verify legitimacy")>>
                   ELSE <<>>)
             ELSE <<Flag("TRADING CLOSED", "Transaction worked before but fails now")>>
        ELSE <<>>

\* the flags analyzeTimeTravelResults pushes for one future result
TimeTravelFlagsOf(currentSuccess, future) ==
    LET futureSuccess == future.status = "Success"
    IN  IF ~future.divergesFromCurrent THEN <<>>
        ELSE IF currentSuccess /\ ~futureSuccess
        THEN IF future.offsetSeconds > 0
             THEN <<Flag("TIME-BOMB", future.offsetDescription)>> \o
                  (IF future.offsetSeconds <= 604800
                   THEN <<Flag("CRITICAL", "Fails within 7 days - possible honeypot activation")>>
                   ELSE <<>>)
             ELSE <<>>
        ELSE IF ~currentSuccess /\ futureSuccess
        THEN IF future.offsetSeconds > 0
             THEN <<Flag("DELAYED TRADING", future.offsetDescription)>> \o
                  (IF future.offsetSeconds > 86400
                   THEN <<Flag("WARNING", "Extended trading delay - verify legitimacy")>>
                   ELSE <<>>)
             ELSE <<Flag("TRADING CLOSED", "Transaction worked before but fails now")>>
        ELSE <<>>

RECURSIVE TimeTravelFlags(_, _, _)
TimeTravelFlags(currentSuccess, futures, i) ==
    IF i > Len(futures) THEN <<>>
    ELSE TimeTravelFlagsOf(currentSuccess, futures[i]) \o
         TimeTravelFlags(currentSuccess, futures, i + 1)

TimeTravelSummary(result) ==
    IF result.isTimeSensitive
    THEN LET failsFuture == \E i \in 1..Len(result.futureResults) :
                 LET f == result.futureResults[i]
                 IN  f.divergesFromCurrent /\ result.currentBlockResult = "Success"
                     /\ f.status = "Reverted" /\ f.offsetSeconds > 0
             opensLater == \E i \in 1..Len(result.futureResults) :
                 LET f == result.futureResults[i]
                 IN  f.divergesFromCurrent /\ result.currentBlockResult = "Reverted"
                     /\ f.status = "Success" /\ f.offsetSeconds > 0
         IN  IF failsFuture THEN "TIME-SENSITIVE: will BLOCK transactions in the future"
             ELSE IF opensLater THEN "DELAYED TRADING: Trading is not open yet"
             ELSE "TIME-SENSITIVE: Transaction outcomes vary based on block timestamp."
    ELSE "No time-based restrictions detected."

analyzeTimeTravelResults(result) ==
    [result EXCEPT
        !.riskFlags = @ \o TimeTravelFlags(result.currentBlockResult = "Success",
                                           result.futureResults, 1),
        !.summary = TimeTravelSummary(result)]

RECURSIVE TimeTravelLoop(_, _, _)
TimeTravelLoop(result, runs, i) ==
    IF i > Len(timeOffsets) THEN result
    ELSE TimeTravelLoop(TimeTravelStep(result, timeOffsets[i], runs[i]), runs, i + 1)

\* runTimeTravelSimulation; runs[i] is what the run at timeOffsets[i] gives
\* (runs[1] is the current-block run)
runTimeTravelSimulation(runs) ==
    IF runs[1] = NoRun THEN TimeTravelCurrent(NoRun)
    ELSE analyzeTimeTravelResults(TimeTravelLoop(TimeTravelCurrent(runs[1]), runs, 1))

\* a time-travel flag's text includes the keyword
FlagIncludes(flag, keyword) == flag[1] = keyword

---------------------------------------------------------------------------
\* Counterfactual simulation. server.ts (AdvancedSimulator) types the real
\* sender "Current User"; CounterfactualAnalyzer types it "RandomUser".

Variants == {"AdvancedSimulator", "CounterfactualAnalyzer"}

SenderType(variant) ==
    IF variant = "AdvancedSimulator" THEN "Current User" ELSE "RandomUser"

\* detectWhitelistedAddresses returns []
detectWhitelistedAddresses == <<>>

\* the actors runCounterfactualSimulation lines up
Actors(variant, from, ownerAddress, deployerAddress) ==
    << [type |-> SenderType(variant), address |-> from],
       [type |-> "RandomUser", address |-> RandomAddr] >>
    \o (IF ownerAddress # NoAddress /\ ownerAddress # ZeroAddress
        THEN <<[type |-> "Owner", address |-> ownerAddress]>> ELSE <<>>)
    \o (IF deployerAddress # NoAddress /\ deployerAddress # ownerAddress
        THEN <<[type |-> "Deployer", address |-> deployerAddress]>> ELSE <<>>)
    \o [i \in 1..Len(detectWhitelistedAddresses) |->
            [type |-> "WhitelistedAddress", address |-> detectWhitelistedAddresses[i]]]

NewCounterfactualResult ==
    [isHoneypot |-> FALSE, hasOwnerPrivileges |-> FALSE,
     hasWhitelistMechanism |-> FALSE, actorResults |-> <<>>,
     privilegeDiff |-> <<>>, summary |-> "", riskFlags |-> <<>>, riskScore |-> 0]

\* an actor's run: NoOutcome (no EVM) or [status, gasUsed]
NoOutcome == [status |-> NoRun, gasUsed |-> 0]

\* one iteration of the loop over the actors
CounterfactualStep(result, actor, outcome) ==
    IF outcome.status = NoRun THEN result
    ELSE [result EXCEPT !.actorResults = Append(@,
            [actorType |-> actor.type, address |-> actor.address,
             status |-> outcome.status, gasUsed |-> outcome.gasUsed])]

FilterType(results, type) == SelectSeq(results, LAMBDA r : r.actorType = type)

\* 2 * gasDiff > avgGas is gasDiff / avgGas > 0.5
GasAnomaly(userResults, ownerResults) ==
    /\ Len(userResults) > 0 /\ Len(ownerResults) > 0
    /\ LET userGas  == userResults[1].gasUsed
           ownerGas == ownerResults[1].gasUsed
           gasDiff  == IF userGas > ownerGas THEN userGas - ownerGas ELSE ownerGas - userGas
           avgGas   == (userGas + ownerGas) \div 2
       IN  userGas > 0 /\ ownerGas > 0 /\ avgGas > 0 /\ 2 * gasDiff > avgGas

analyzeCounterfactualResults(result) ==
    LET userResults      == FilterType(result.actorResults, "RandomUser")
        ownerResults     == FilterType(result.actorResults, "Owner")
        whitelistResults == FilterType(result.actorResults, "WhitelistedAddress")
        Some(rs, st)  == \E i \in 1..Len(rs) : rs[i].status = st
        Every(rs, st) == \A i \in 1..Len(rs) : rs[i].status = st
        anyUserSucceeds == Some(userResults, "Success")
        allUsersFail    == Every(userResults, "Reverted")
        ownerSucceeds   == Some(ownerResults, "Success")
        ownerFails      == Every(ownerResults, "Reverted")
        honeypot  == allUsersFail /\ ownerSucceeds
        unusual   == anyUserSucceeds /\ ownerFails
        whitelist == Len(whitelistResults) > 0
                     /\ Some(whitelistResults, "Success") /\ allUsersFail
        anomaly   == GasAnomaly(userResults, ownerResults)
        score1 == IF honeypot THEN 100 ELSE result.riskScore
        score2 == IF whitelist THEN Max(score1, 80) ELSE score1
        score3 == IF anomaly THEN score2 + 15 ELSE score2
    IN  [result EXCEPT
          !.isHoneypot = @ \/ honeypot,
          !.hasOwnerPrivileges = @ \/ honeypot,
          !.hasWhitelistMechanism = @ \/ whitelist,
          !.riskScore = score3,
          !.riskFlags = @
             \o (IF honeypot THEN <<Flag("CRITICAL HONEYPOT", "Owner can execute, but users CANNOT")>> ELSE <<>>)
             \o (IF unusual THEN <<Flag("UNUSUAL", "Users can execute but owner cannot - verify logic")>> ELSE <<>>)
             \o (IF whitelist THEN <<Flag("WHITELIST DETECTED", "Only whitelisted addresses can trade")>> ELSE <<>>)
             \o (IF anomaly THEN <<<<"GAS ANOMALY", ToString(userResults[1].gasUsed), ToString(ownerResults[1].gasUsed)>>>> ELSE <<>>),
          !.privilegeDiff = @
             \o (IF honeypot
                 THEN <<[description |-> "Transaction Execution", userOutcome |-> "BLOCKED (Reverted)",
                         ownerOutcome |-> "ALLOWED (Success)", severity |-> "Critical"]>>
                 ELSE <<>>)
             \o (IF unusual
                 THEN <<[description |-> "Transaction Execution", userOutcome |-> "ALLOWED",
                         ownerOutcome |-> "BLOCKED", severity |-> "Medium"]>>
                 ELSE <<>>),
          !.summary = IF honeypot THEN "HONEYPOT CONFIRMED"
                      ELSE IF whitelist THEN "WHITELIST SCAM"
                      ELSE IF result.hasOwnerPrivileges THEN "OWNER PRIVILEGES"
                      ELSE IF allUsersFail THEN "TRADING BLOCKED"
                      ELSE IF anyUserSucceeds THEN "No privilege differences detected."
                      ELSE "Unable to determine privilege status - insufficient data."]

RECURSIVE CounterfactualLoop(_, _, _, _)
CounterfactualLoop(result, actors, outcomes, i) ==
    IF i > Len(actors) THEN result
    ELSE CounterfactualLoop(CounterfactualStep(result, actors[i], outcomes[i]),
                            actors, outcomes, i + 1)

\* runCounterfactualSimulation; outcomes[i] is what actor i's run gives
runCounterfactualSimulation(variant, from, ownerAddress, deployerAddress, outcomes) ==
    analyzeCounterfactualResults(
        CounterfactualLoop(NewCounterfactualResult,
                           Actors(variant, from, ownerAddress, deployerAddress),
                           outcomes, 1))

---------------------------------------------------------------------------
\* runComprehensiveAnalysis: overall score and isScam from the two results

NoAdvanced == [present |-> FALSE, overallRiskScore |-> 0, isScam |-> FALSE,
               overallSummary |-> ""]

\* the score with time sensitivity weighted 50 whatever the flags
OverallRiskScoreFlat(timeTravel, counterfactual) ==
    LET s1 == counterfactual.riskScore
        s2 == IF timeTravel.isTimeSensitive THEN s1 + 50 ELSE s1
    IN  Min(100, s2)

OverallRiskScore(timeTravel, counterfactual) ==
    LET timeBomb == \E i \in 1..Len(timeTravel.riskFlags) :
                        FlagIncludes(timeTravel.riskFlags[i], "TIME-BOMB")
        s1 == counterfactual.riskScore
        s2 == IF timeTravel.isTimeSensitive
              THEN s1 + 25 + (IF timeBomb THEN 25 ELSE 0)
              ELSE s1
    IN  Min(100, s2)

IsScam(timeTravel, counterfactual) ==
    \/ counterfactual.isHoneypot
    \/ counterfactual.hasWhitelistMechanism
    \/ \E i \in 1..Len(timeTravel.riskFlags) :
          \/ FlagIncludes(timeTravel.riskFlags[i], "TIME-BOMB")
          \/ FlagIncludes(timeTravel.riskFlags[i], "CRITICAL")

runComprehensiveAnalysis(timeTravel, counterfactual) ==
    LET score == OverallRiskScore(timeTravel, counterfactual)
        scam  == IsScam(timeTravel, counterfactual)
    IN  [present |-> TRUE, overallRiskScore |-> score, isScam |-> scam,
         overallSummary |-> IF scam THEN "SCAM DETECTED"
                            ELSE IF score > 50 THEN "HIGH RISK"
                            ELSE IF score > 25 THEN "MODERATE RISK"
                            ELSE "LOW RISK"]

---------------------------------------------------------------------------
\* simulateTransaction: merging the advanced analysis into the report

Upper(severity) ==
    CASE severity = "Critical" -> "CRITICAL"
      [] severity = "High"     -> "HIGH"
      [] severity = "Medium"   -> "MEDIUM"
      [] OTHER                 -> "LOW"

\* `${severity}: ${description} - User: ${userOutcome}, Owner: ${ownerOutcome}`
DiffFlag(diff) ==
    <<Upper(diff.severity), diff.description, diff.userOutcome, diff.ownerOutcome>>

\* the merge loop without its includes test
PushAll(flags, new, i) == flags \o new

\* for (flag of new) if (!flags.includes(flag)) flags.push(flag)
RECURSIVE PushMissing(_, _, _)
PushMissing(flags, new, i) ==
    IF i > Len(new) THEN flags
    ELSE PushMissing(IF new[i] \in SeqToSet(flags) THEN flags ELSE Append(flags, new[i]),
                     new, i + 1)

MergeAdvanced(rep, a, timeTravel, counterfactual) ==
    LET r1 == IF a.isScam
              THEN [rep EXCEPT !.isHoneypot = TRUE,
                               !.riskScore = Max(@, a.overallRiskScore),
                               !.friendlyExplanation = a.overallSummary]
              ELSE rep
        f1 == PushMissing(r1.flags, timeTravel.riskFlags, 1)
        f2 == PushMissing(f1, counterfactual.riskFlags, 1)
        f3 == PushMissing(f2, [i \in 1..Len(counterfactual.privilegeDiff) |->
                                  DiffFlag(counterfactual.privilegeDiff[i])], 1)
    IN  [r1 EXCEPT !.flags = f3,
                   !.riskScore = Max(r1.riskScore, a.overallRiskScore)]

---------------------------------------------------------------------------
\* ScanHistory

\* lTrim(historyKey, 0, 99)
HistoryCap == 100

\* a hash of the set of flags, blind to repetitions
generateCapabilityHashOfSet(flags) == [f \in SeqToSet(flags) |-> 1]

\* sha256 of the sorted flags joined by "|": equal exactly for equal
\* multisets of flags (hash collisions aside; no flag text holds a "|")
generateCapabilityHash(flags) ==
    [f \in SeqToSet(flags) |-> Cardinality({i \in 1..Len(flags) : flags[i] = f})]

ScanRecord(rep, timestamp) ==
    [timestamp |-> timestamp, riskScore |-> rep.riskScore, flags |-> rep.flags,
     capabilityHash |-> generateCapabilityHash(rep.flags),
     isHoneypot |-> rep.isHoneypot, ownershipStatus |-> rep.ownershipStatus]

\* storeScan with the record pushed at the tail of the list
storeScanAtTail(hist, rep, timestamp) ==
    LET pushed == hist \o <<ScanRecord(rep, timestamp)>>
    IN  SubSeq(pushed, 1, Min(Len(pushed), HistoryCap))

\* storeScan: the record stamped Date.now(), lPush, then lTrim
storeScan(hist, rep, timestamp) ==
    LET pushed == <<ScanRecord(rep, timestamp)>> \o hist
    IN  SubSeq(pushed, 1, Min(Len(pushed), HistoryCap))

\* getHistory: lRange(historyKey, 0, limit - 1)
getHistory(hist, limit) == SubSeq(hist, 1, Min(limit, Len(hist)))

NoRecord == [present |-> FALSE]

\* getLatestScan: the first record of getHistory(address, 1), or null
getLatestScan(hist) ==
    LET h == getHistory(hist, 1)
    IN  IF Len(h) > 0 THEN [present |-> TRUE, record |-> h[1]] ELSE NoRecord

NoDrift ==
    [present |-> FALSE, hasPrevious |-> FALSE, hasDrift |-> FALSE, riskDelta |-> 0,
     newFlags |-> <<>>, removedFlags |-> <<>>]

\* the drift with the delta taken from the current score to the stored one
analyzeDriftReversed(hist, rep) ==
    IF Len(hist) = 0
    THEN [NoDrift EXCEPT !.present = TRUE]
    ELSE LET previousScan == hist[1]
         IN  [present |-> TRUE, hasPrevious |-> TRUE,
              hasDrift |-> generateCapabilityHash(rep.flags) # previousScan.capabilityHash,
              riskDelta |-> previousScan.riskScore - rep.riskScore,
              newFlags |-> SelectSeq(rep.flags,
                              LAMBDA f : f \notin SeqToSet(previousScan.flags)),
              removedFlags |-> SelectSeq(previousScan.flags,
                              LAMBDA f : f \notin SeqToSet(rep.flags))]

analyzeDrift(hist, rep) ==
    IF Len(hist) = 0
    THEN [NoDrift EXCEPT !.present = TRUE]
    ELSE LET previousScan == hist[1]
         IN  [present |-> TRUE, hasPrevious |-> TRUE,
              hasDrift |-> generateCapabilityHash(rep.flags) # previousScan.capabilityHash,
              riskDelta |-> rep.riskScore - previousScan.riskScore,
              newFlags |-> SelectSeq(rep.flags,
                              LAMBDA f : f \notin SeqToSet(previousScan.flags)),
              removedFlags |-> SelectSeq(previousScan.flags,
                              LAMBDA f : f \notin SeqToSet(rep.flags))]

\* simulateTransaction, after analyzeDrift: the auto-flag
DriftFlagged(d) == d.hasDrift /\ d.riskDelta > 0

PushDriftFlag(rep, d) ==
    IF DriftFlagged(d)
    THEN [rep EXCEPT !.flags = Append(@, Flag("Risk Increased", ToString(d.riskDelta)))]
    ELSE rep

---------------------------------------------------------------------------
\* simulateTransaction: [PHASE 5] the combined verdict

NoReport == [EmptyReport EXCEPT !.ownershipStatus = "null"]

NoML == [present |-> FALSE, scam_probability |-> 0]

ruleBasedIsScam(rep, a, counterfactual) ==
    \/ rep # NoReport /\ rep.isHoneypot
    \/ a.present /\ a.isScam
    \/ a.present /\ counterfactual.isHoneypot
    \/ a.present /\ counterfactual.hasOwnerPrivileges

\* the table with the risk-score rule tried before the rule-based one
FinalVerdictRiskFirst(rep, a, counterfactual, mlr) ==
    LET riskScore == IF rep = NoReport THEN 0 ELSE rep.riskScore
    IN  IF riskScore >= 50
        THEN [verdict |-> "WARN", confidence |-> 80, source |-> "RISK_SCORE"]
        ELSE IF ruleBasedIsScam(rep, a, counterfactual)
        THEN [verdict |-> "BLOCK", confidence |-> 100, source |-> "RULE_BASED"]
        ELSE [verdict |-> "SAFE", confidence |-> 50, source |-> "DEFAULT"]

\* the table with scamProb >= 0.7 for scamProb > 0.7
FinalVerdictInclusive(rep, a, counterfactual, mlr) ==
    LET riskScore == IF rep = NoReport THEN 0 ELSE rep.riskScore
        scamProb  == mlr.scam_probability
    IN  IF ruleBasedIsScam(rep, a, counterfactual)
        THEN [verdict |-> "BLOCK", confidence |-> 100, source |-> "RULE_BASED"]
        ELSE IF riskScore >= 50
        THEN [verdict |-> "WARN", confidence |-> 80, source |-> "RISK_SCORE"]
        ELSE IF mlr.present
        THEN IF scamProb >= 70
             THEN [verdict |-> "BLOCK", confidence |-> scamProb, source |-> "ML_CALIBRATED"]
             ELSE IF scamProb > 40
             THEN [verdict |-> "WARN", confidence |-> scamProb, source |-> "ML_CALIBRATED"]
             ELSE [verdict |-> "SAFE", confidence |-> 100 - scamProb, source |-> "ML_CALIBRATED"]
        ELSE [verdict |-> "SAFE", confidence |-> 50, source |-> "DEFAULT"]

FinalVerdict(rep, a, counterfactual, mlr) ==
    LET riskScore == IF rep = NoReport THEN 0 ELSE rep.riskScore
        scamProb  == mlr.scam_probability
    IN  IF ruleBasedIsScam(rep, a, counterfactual)
        THEN [verdict |-> "BLOCK", confidence |-> 100, source |-> "RULE_BASED"]
        ELSE IF riskScore >= 50
        THEN [verdict |-> "WARN", confidence |-> 80, source |-> "RISK_SCORE"]
        ELSE IF mlr.present
        THEN IF scamProb > 70
             THEN [verdict |-> "BLOCK", confidence |-> scamProb, source |-> "ML_CALIBRATED"]
             ELSE IF scamProb > 40
             THEN [verdict |-> "WARN", confidence |-> scamProb, source |-> "ML_CALIBRATED"]
             ELSE [verdict |-> "SAFE", confidence |-> 100 - scamProb, source |-> "ML_CALIBRATED"]
        ELSE [verdict |-> "SAFE", confidence |-> 50, source |-> "DEFAULT"]

NoVerdict == [verdict |-> "none", confidence |-> 0, source |-> "none"]

NoResponse == [kind |-> "none", finalVerdict |-> NoVerdict]

---------------------------------------------------------------------------
\* The scan: /rpc handler -> EvmExecutor.simulateTransaction

Chains == {"mainnet", "hardhat"}

NoRequest == [hasTo |-> FALSE, wellFormed |-> FALSE, chain |-> "none"]

\* hasTo: the transaction names a target; wellFormed: its addresses and data
\* parse (createAddressFromString / hexToBytes do not throw)
Requests == [hasTo : BOOLEAN, wellFormed : BOOLEAN, chain : Chains]

NoEvm == [hasCode |-> FALSE, code |-> {}, success |-> FALSE]

\* what one endpoint answers to getCode within the 5 s race
CodeReplies == {"timeout", "0x", "code"}

\* the endpoints resolveRpcUrls gives for a chain
Endpoints == 1..2

\* setupForkedEVM: the loop over the endpoints
RECURSIVE SetupLoop(_, _, _, _)
SetupLoop(chain, code, replies, i) ==
    IF i > Len(replies) THEN NoEvm
    ELSE IF replies[i] = "timeout" THEN SetupLoop(chain, code, replies, i + 1)
    ELSE IF replies[i] = "code"
    THEN [hasCode |-> TRUE, code |-> code, success |-> TRUE]
    ELSE IF chain = "hardhat" THEN SetupLoop(chain, code, replies, i + 1)
    ELSE [NoEvm EXCEPT !.success = TRUE]

setupForkedEVM(req, code, replies) ==
    IF req.hasTo THEN SetupLoop(req.chain, code, replies, 1) ELSE NoEvm

\* the statuses a contract's runs take along the timeline of timeOffsets:
\* at most MaxSwitches changes between neighbouring instants
Neighbours(i, j) ==
    /\ timeOffsets[i].seconds < timeOffsets[j].seconds
    /\ ~\E k \in 1..Len(timeOffsets) :
           /\ timeOffsets[i].seconds < timeOffsets[k].seconds
           /\ timeOffsets[k].seconds < timeOffsets[j].seconds

Switches(runs) ==
    Cardinality({p \in (1..Len(timeOffsets)) \X (1..Len(timeOffsets)) :
                    Neighbours(p[1], p[2]) /\ runs[p[1]] # runs[p[2]]})

TimelineRuns ==
    {runs \in [1..Len(timeOffsets) -> Statuses] : Switches(runs) <= MaxSwitches}
    \cup {[i \in 1..Len(timeOffsets) |-> NoRun]}

\* gas an actor's run uses, in units of the cheapest run
GasValues == {1, 3}

\* the outcomes of the actors' runs in a scan: no run at all (no endpoint
\* serves the code), or a status each; users' runs cost one unit
ScanOutcomes(actors) ==
    {[i \in 1..Len(actors) |-> NoOutcome]} \cup
    {o \in [1..Len(actors) -> [status : Statuses, gasUsed : GasValues]] :
        \A i \in 1..Len(actors) : actors[i].type # "Owner" => o[i].gasUsed = 1}

\* MLService.analyze: null, or a scam_probability (in percent)
MLResults == {NoML} \cup {[present |-> TRUE, scam_probability |-> p] : p \in {40, 41, 70, 71}}

\* scans stored before this one: none, a clean report's, an owned contract's
PriorReports ==
    { Analyze("Success", FALSE, EmptyBytes, FALSE, [ok |-> FALSE, ret |-> EmptyBytes], {}),
      Analyze("Success", FALSE, Bytes(32, FALSE, FALSE), FALSE,
              [ok |-> FALSE, ret |-> EmptyBytes], {}) }

PriorHistories == {<<>>} \cup {storeScan(<<>>, r, 0) : r \in PriorReports}

Init ==
    /\ pc = "idle"
    /\ request = NoRequest
    /\ evm = NoEvm
    /\ status = "none"
    /\ ownerRet = EmptyBytes
    /\ report = NoReport
    /\ tt = NewTimeTravelResult
    /\ cf = NewCounterfactualResult
    /\ adv = NoAdvanced
    /\ drift = NoDrift
    /\ history \in PriorHistories
    /\ ml = NoML
    /\ response = NoResponse
    /\ todo = <<>>
    /\ clock = 1
    /\ oracle = "none"
    /\ scans = <<>>
    /\ tracer = "none"
    /\ proxy = "none"

\* app.post("/rpc"): a sentinel_analyze request arrives
ReceiveRequest ==
    /\ pc = "idle"
    /\ \E req \in Requests : request' = req
    /\ pc' = "setup"
    /\ UNCHANGED <<elsewhere, evm, status, ownerRet, report, tt, cf, adv, drift, history, ml,
                   response, todo>>

\* simulateTransaction: setupForkedEVM; its success flag is not read
SetupForkedEVM ==
    /\ pc = "setup"
    /\ \E code \in SUBSET (1..MaxSel), replies \in [Endpoints -> CodeReplies] :
          evm' = setupForkedEVM(request, code, replies)
    /\ pc' = "call"
    /\ UNCHANGED <<elsewhere, request, status, ownerRet, report, tt, cf, adv, drift, history, ml,
                   response, todo>>

\* simulateTransaction: the sender or the call data do not parse; the throw
\* reaches the handler's catch, which answers with a JSON-RPC error
ExecuteCallThrows ==
    /\ pc = "call"
    /\ ~request.wellFormed
    /\ response' = [kind |-> "error", finalVerdict |-> NoVerdict]
    /\ pc' = "done"
    /\ UNCHANGED <<elsewhere, request, evm, status, ownerRet, report, tt, cf, adv, drift, history,
                   ml, todo>>

\* simulateTransaction: executeCall on the EVM, whatever it holds
ExecuteCall ==
    /\ pc = "call"
    /\ request.wellFormed
    /\ \E st \in Statuses : status' = st
    /\ pc' = IF request.hasTo THEN "analyze" ELSE "verdict"
    /\ UNCHANGED <<elsewhere, request, evm, ownerRet, report, tt, cf, adv, drift, history, ml,
                   response, todo>>

\* the kinds of proxy detectProxy names differ only in the flag's text; one
\* stands for them
ProxyTypes == {"EIP-1967"}

\* detectProxy's answer. When the implementation's code is fetched the
\* analysis moves to the implementation: it is then the analysis of a
\* contract holding that code
ProxyInfos ==
    {[isProxy |-> FALSE, proxyType |-> "undefined"]}
    \cup [isProxy : {TRUE}, proxyType : ProxyTypes]

\* simulateTransaction: the proxy flag
PushProxyFlag(rep, proxyInfo) ==
    IF proxyInfo.isProxy
    THEN [rep EXCEPT !.flags = Append(@, Flag("Proxy Contract", proxyInfo.proxyType))]
    ELSE rep

\* simulateTransaction: detectProxy, SecurityAnalyzer.analyze on the address
\* to analyze, the proxy flag. The provider object exists whenever the chain
\* has endpoints, answering or not
SecurityAnalysis ==
    /\ pc = "analyze"
    /\ \E proxyInfo \in ProxyInfos, evmThrows \in BOOLEAN, rpc \in RpcReplies,
          evmRet \in (IF evm.hasCode THEN ReturnValues ELSE {EmptyBytes}) :
          report' = PushProxyFlag(
                        Analyze(status, evmThrows, evmRet, TRUE, rpc, evm.code),
                        proxyInfo)
    /\ pc' = "advanced"
    /\ UNCHANGED <<elsewhere, request, evm, status, ownerRet, tt, cf, adv, drift, history, ml,
                   response, todo>>

\* simulateTransaction: [PHASE 2] runComprehensiveAnalysis and the merge of
\* its results into the report
AdvancedSimulation ==
    /\ pc = "advanced"
    /\ LET actors == Actors("AdvancedSimulator", SenderAddr, report.ownerAddress, NoAddress)
       IN  \E runs \in TimelineRuns, outcomes \in ScanOutcomes(actors) :
              LET timeTravel     == runTimeTravelSimulation(runs)
                  counterfactual == runCounterfactualSimulation("AdvancedSimulator",
                                        SenderAddr, report.ownerAddress, NoAddress, outcomes)
                  a == runComprehensiveAnalysis(timeTravel, counterfactual)
              IN  /\ (runs[1] = NoRun) <=> (outcomes[1].status = NoRun)
                  /\ tt' = timeTravel
                  /\ cf' = counterfactual
                  /\ adv' = a
                  /\ report' = MergeAdvanced(report, a, timeTravel, counterfactual)
    /\ pc' = "history"
    /\ UNCHANGED <<elsewhere, request, evm, status, ownerRet, drift, history, ml, response, todo>>

\* simulateTransaction: runComprehensiveAnalysis throws; the catch logs it
AdvancedSimulationFails ==
    /\ pc = "advanced"
    /\ pc' = "history"
    /\ UNCHANGED <<elsewhere, request, evm, status, ownerRet, report, tt, cf, adv, drift, history,
                   ml, response, todo>>

\* simulateTransaction: analyzeDrift, the auto-flag, storeScan
DriftAndStore ==
    /\ pc = "history"
    /\ LET d == analyzeDrift(history, report)
           r == PushDriftFlag(report, d)
       IN  /\ drift' = d
           /\ report' = r
           /\ \/ history' = storeScan(history, r, clock)
              \/ history' = history      \* storeScan throws before its lPush
    /\ pc' = "verdict"
    /\ UNCHANGED <<elsewhere, request, evm, status, ownerRet, tt, cf, adv, ml, response, todo>>

\* the History Store failure left uncaught: it reaches the handler's catch
DriftFailsUncaught ==
    /\ pc = "history"
    /\ response' = [kind |-> "error", finalVerdict |-> NoVerdict]
    /\ pc' = "done"
    /\ UNCHANGED <<elsewhere, request, evm, status, ownerRet, report, tt, cf, adv, drift, history,
                   ml, todo>>

\* simulateTransaction: analyzeDrift throws (the History Store is down)
DriftFails ==
    /\ pc = "history"
    /\ pc' = "verdict"
    /\ UNCHANGED <<elsewhere, request, evm, status, ownerRet, report, tt, cf, adv, drift, history,
                   ml, response, todo>>

\* simulateTransaction: [PHASE 4] the classifier (asked only when the
\* advanced analysis exists), [PHASE 5] the verdict, and the handler's reply
VerdictAndRespond ==
    /\ pc = "verdict"
    /\ \E mlr \in (IF adv.present THEN MLResults ELSE {NoML}) :
          /\ ml' = mlr
          /\ response' = [kind |-> "result",
                          finalVerdict |-> FinalVerdict(report, adv, cf, mlr)]
    /\ pc' = "done"
    /\ UNCHANGED <<elsewhere, request, evm, status, ownerRet, report, tt, cf, adv, drift, history,
                   todo>>

Next ==
    \/ ReceiveRequest
    \/ SetupForkedEVM
    \/ ExecuteCallThrows
    \/ ExecuteCall
    \/ SecurityAnalysis
    \/ AdvancedSimulationFails
    \/ AdvancedSimulation
    \/ DriftFails
    \/ DriftAndStore
    \/ VerdictAndRespond

Spec == Init /\ [][Next]_vars

---------------------------------------------------------------------------
\* runTimeTravelSimulation run by run: every run may succeed, revert, or
\* have no EVM

InitTT ==
    /\ pc = "tt:current"
    /\ request = [hasTo |-> TRUE, wellFormed |-> TRUE, chain |-> "mainnet"]
    /\ evm = NoEvm
    /\ status = "none"
    /\ ownerRet = EmptyBytes
    /\ report = NoReport
    /\ tt = NewTimeTravelResult
    /\ cf = NewCounterfactualResult
    /\ adv = NoAdvanced
    /\ drift = NoDrift
    /\ history = <<>>
    /\ ml = NoML
    /\ response = NoResponse
    /\ todo = [i \in 1..Len(timeOffsets) |-> i]
    /\ Elsewhere

\* the current-block run
TimeTravelCurrentBlock ==
    /\ pc = "tt:current"
    /\ \E run \in RunResults :
          /\ tt' = TimeTravelCurrent(run)
          /\ pc' = IF run = NoRun THEN "tt:done" ELSE "tt:offsets"
    /\ UNCHANGED <<elsewhere, request, evm, status, ownerRet, report, cf, adv, drift, history, ml,
                   response, todo>>

\* for (const offset of timeOffsets): one iteration
TimeTravelOffset ==
    /\ pc = "tt:offsets"
    /\ todo # <<>>
    /\ \E run \in RunResults :
          tt' = TimeTravelStep(tt, timeOffsets[Head(todo)], run)
    /\ todo' = Tail(todo)
    /\ UNCHANGED <<elsewhere, pc, request, evm, status, ownerRet, report, cf, adv, drift, history,
                   ml, response>>

\* analyzeTimeTravelResults, after the loop
TimeTravelAnalyze ==
    /\ pc = "tt:offsets"
    /\ todo = <<>>
    /\ tt' = analyzeTimeTravelResults(tt)
    /\ pc' = "tt:done"
    /\ UNCHANGED <<elsewhere, request, evm, status, ownerRet, report, cf, adv, drift, history, ml,
                   response, todo>>

NextTT ==
    \/ TimeTravelCurrentBlock
    \/ TimeTravelOffset
    \/ TimeTravelAnalyze

SpecTT == InitTT /\ [][NextTT]_vars

---------------------------------------------------------------------------
\* runCounterfactualSimulation actor by actor, in either variant, with any
\* owner and deployer passed in

InitCF ==
    /\ pc = "cf:actors"
    /\ request = [hasTo |-> TRUE, wellFormed |-> TRUE, chain |-> "mainnet"]
    /\ evm = NoEvm
    /\ status = "none"
    /\ ownerRet = EmptyBytes
    /\ report = NoReport
    /\ tt = NewTimeTravelResult
    /\ cf = NewCounterfactualResult
    /\ adv = NoAdvanced
    /\ drift = NoDrift
    /\ history = <<>>
    /\ ml = NoML
    /\ response = NoResponse
    /\ todo = <<>>
    /\ Elsewhere

\* the actors are lined up
CounterfactualActors ==
    /\ pc = "cf:actors"
    /\ \E variant \in Variants,
          ownerAddress \in {NoAddress, ZeroAddress, OwnerAddr},
          deployerAddress \in {NoAddress, OwnerAddr, DeployerAddr} :
          todo' = Actors(variant, SenderAddr, ownerAddress, deployerAddress)
    /\ pc' = "cf:runs"
    /\ UNCHANGED <<elsewhere, request, evm, status, ownerRet, report, tt, cf, adv, drift, history,
                   ml, response>>

\* for (const actor of actors): one iteration
CounterfactualRun ==
    /\ pc = "cf:runs"
    /\ todo # <<>>
    /\ \E outcome \in {NoOutcome} \cup [status : Statuses, gasUsed : GasValues] :
          cf' = CounterfactualStep(cf, Head(todo), outcome)
    /\ todo' = Tail(todo)
    /\ UNCHANGED <<elsewhere, pc, request, evm, status, ownerRet, report, tt, adv, drift, history,
                   ml, response>>

\* analyzeCounterfactualResults, after the loop
CounterfactualAnalyze ==
    /\ pc = "cf:runs"
    /\ todo = <<>>
    /\ cf' = analyzeCounterfactualResults(cf)
    /\ pc' = "cf:done"
    /\ UNCHANGED <<elsewhere, request, evm, status, ownerRet, report, tt, adv, drift, history, ml,
                   response, todo>>

NextCF ==
    \/ CounterfactualActors
    \/ CounterfactualRun
    \/ CounterfactualAnalyze

SpecCF == InitCF /\ [][NextCF]_vars

---------------------------------------------------------------------------
\* The verdict table on its own: any report, advanced analysis and
\* classifier result reaching [PHASE 5]

VerdictReports ==
    {NoReport} \cup
    {[EmptyReport EXCEPT !.isHoneypot = h, !.riskScore = r] :
        h \in BOOLEAN, r \in {0, 49, 50, 51, 110}}

VerdictAdvanced ==
    {NoAdvanced} \cup
    {[NoAdvanced EXCEPT !.present = TRUE, !.isScam = b, !.overallRiskScore = r] :
        b \in BOOLEAN, r \in {0, 100}}

VerdictCounterfactuals ==
    {[NewCounterfactualResult EXCEPT !.isHoneypot = h, !.hasOwnerPrivileges = o] :
        h \in BOOLEAN, o \in BOOLEAN}

InitVerdict ==
    /\ pc = "verdict:inputs"
    /\ request = [hasTo |-> TRUE, wellFormed |-> TRUE, chain |-> "mainnet"]
    /\ evm = NoEvm
    /\ status = "Success"
    /\ ownerRet = EmptyBytes
    /\ report \in VerdictReports
    /\ tt = NewTimeTravelResult
    /\ adv \in VerdictAdvanced
    /\ cf \in VerdictCounterfactuals
    /\ (~adv.present) => cf = NewCounterfactualResult
    /\ drift = NoDrift
    /\ history = <<>>
    /\ ml \in MLResults
    /\ response = NoResponse
    /\ todo = <<>>
    /\ Elsewhere

\* [PHASE 5] on the inputs at hand
AssembleVerdict ==
    /\ pc = "verdict:inputs"
    /\ response' = [kind |-> "result", finalVerdict |-> FinalVerdict(report, adv, cf, ml)]
    /\ pc' = "verdict:done"
    /\ UNCHANGED <<elsewhere, request, evm, status, ownerRet, report, tt, cf, adv, drift, history,
                   ml, todo>>

NextVerdict == AssembleVerdict

SpecVerdict == InitVerdict /\ [][NextVerdict]_vars

---------------------------------------------------------------------------
\* SecurityAnalyzer.analyze step by step, on any EVM and provider

InitAnalyze ==
    /\ pc = "analyze:start"
    /\ request = [hasTo |-> TRUE, wellFormed |-> TRUE, chain |-> "mainnet"]
    /\ evm = NoEvm
    /\ status = "none"
    /\ ownerRet = EmptyBytes
    /\ report = NoReport
    /\ tt = NewTimeTravelResult
    /\ cf = NewCounterfactualResult
    /\ adv = NoAdvanced
    /\ drift = NoDrift
    /\ history = <<>>
    /\ ml = NoML
    /\ response = NoResponse
    /\ todo = <<>>
    /\ Elsewhere

\* analyze is entered with an EVM and a simulation result: step 1
AnalyzeStart ==
    /\ pc = "analyze:start"
    /\ \E st \in Statuses, code \in SUBSET (1..MaxSel) :
          /\ status' = st
          /\ evm' = [hasCode |-> TRUE, code |-> code, success |-> TRUE]
          /\ report' = AnalyzeSimulationResult(EmptyReport, st)
    /\ pc' = "analyze:owner"
    /\ UNCHANGED <<elsewhere, request, ownerRet, tt, cf, adv, drift, history, ml, response, todo>>

\* step 2: owner() on the EVM, then on the chain when the EVM gave nothing
OwnerCall ==
    /\ pc = "analyze:owner"
    /\ \E evmRet \in ReturnValues, hasProvider \in BOOLEAN, rpc \in RpcReplies :
          ownerRet' = OwnerReturnValue(evmRet, hasProvider, rpc)
    /\ pc' = "analyze:ownership"
    /\ UNCHANGED <<elsewhere, request, evm, status, report, tt, cf, adv, drift, history, ml,
                   response, todo>>

\* step 2: evm.runCall throws; the catch skips the rest of the step
OwnerCallThrows ==
    /\ pc = "analyze:owner"
    /\ pc' = "analyze:bytecode"
    /\ UNCHANGED <<elsewhere, request, evm, status, ownerRet, report, tt, cf, adv, drift, history,
                   ml, response, todo>>

\* step 2: the returnValue is interpreted
InterpretOwner ==
    /\ pc = "analyze:ownership"
    /\ report' = OwnershipOf(report, ownerRet)
    /\ pc' = "analyze:bytecode"
    /\ UNCHANGED <<elsewhere, request, evm, status, ownerRet, tt, cf, adv, drift, history, ml,
                   response, todo>>

\* step 3: the bytecode scan
ScanBytecode ==
    /\ pc = "analyze:bytecode"
    /\ report' = BytecodeAnalysis(report, evm.code)
    /\ pc' = "analyze:done"
    /\ UNCHANGED <<elsewhere, request, evm, status, ownerRet, tt, cf, adv, drift, history, ml,
                   response, todo>>

NextAnalyze ==
    \/ AnalyzeStart
    \/ OwnerCall
    \/ OwnerCallThrows
    \/ InterpretOwner
    \/ ScanBytecode

SpecAnalyze == InitAnalyze /\ [][NextAnalyze]_vars

---------------------------------------------------------------------------
\* Properties

Verdicts == {"BLOCK", "WARN", "SAFE"}

Responded == pc = "done" /\ response.kind = "result"

\* C1: in every scan whose counterfactual result has isHoneypot = TRUE the
\* final verdict is BLOCK, whatever the classifier returned (nothing, or any
\* scam_probability) and whatever the risk score is.
C1_HoneypotIsBlocked ==
    (Responded /\ cf.isHoneypot) => response.finalVerdict.verdict = "BLOCK"

\* a scan of a honeypot the classifier rates lowest, answered BLOCK
C1_Witness ==
    /\ Responded
    /\ cf.isHoneypot
    /\ ml.present /\ ml.scam_probability = 40
    /\ response.finalVerdict.verdict = "BLOCK"

C3_RiskScoreInRange ==
    (Responded /\ report # NoReport) => report.riskScore \in 0..100

C5_NoCodeIsFatal ==
    (pc = "done" /\ request.hasTo /\ ~evm.success) => response.kind = "error"

\* C6: isHoneypot (with hasOwnerPrivileges) holds iff some Owner run
\* succeeded and every run of a non-owner actor (current user, random
\* address, deployer, whitelisted address) reverted.
C6_HoneypotIffOnlyOwnerSucceeds ==
    pc = "cf:done" =>
        LET rs == cf.actorResults
            ownerSucceeded  == \E i \in 1..Len(rs) :
                                  rs[i].actorType = "Owner" /\ rs[i].status = "Success"
            othersReverted  == \A i \in 1..Len(rs) :
                                  rs[i].actorType # "Owner" => rs[i].status = "Reverted"
        IN  /\ cf.isHoneypot <=> (ownerSucceeded /\ othersReverted)
            /\ cf.isHoneypot => cf.hasOwnerPrivileges

\* a run at offset d was made and gave status st
RanAt(d, st) ==
    \E i \in 1..Len(tt.futureResults) :
        tt.futureResults[i].offsetSeconds = d /\ tt.futureResults[i].status = st

Count(flags, f) == Cardinality({i \in 1..Len(flags) : flags[i] = f})

CriticalFlag == Flag("CRITICAL", "Fails within 7 days - possible honeypot activation")
WarningFlag == Flag("WARNING", "Extended trading delay - verify legitimacy")
TradingClosedFlag == Flag("TRADING CLOSED", "Transaction worked before but fails now")

\* C7: the flags of a time-travel result follow the rules exactly. TIME-BOMB
\* for offset d iff the baseline is Success and the run at the positive offset
\* d reverted, and one CRITICAL per such d <= 604800; DELAYED TRADING for d
\* iff the baseline is Reverted and the run at the positive offset d
\* succeeded, and one WARNING per such d > 86400; TRADING CLOSED iff the
\* baseline is Reverted and the run at the past offset succeeded; no other flag.
C7_TimeTravelFlagRules ==
    pc = "tt:done" =>
        LET flags    == tt.riskFlags
            base     == tt.currentBlockResult
            offsets  == 1..Len(timeOffsets)
            Secs(k)  == timeOffsets[k].seconds
            Bomb(k)  == base = "Success" /\ Secs(k) > 0 /\ RanAt(Secs(k), "Reverted")
            Delay(k) == base = "Reverted" /\ Secs(k) > 0 /\ RanAt(Secs(k), "Success")
            Closed   == base = "Reverted" /\ \E k \in offsets :
                                               Secs(k) < 0 /\ RanAt(Secs(k), "Success")
        IN  /\ \A k \in offsets :
                 /\ Count(flags, Flag("TIME-BOMB", timeOffsets[k].description))
                       = IF Bomb(k) THEN 1 ELSE 0
                 /\ Count(flags, Flag("DELAYED TRADING", timeOffsets[k].description))
                       = IF Delay(k) THEN 1 ELSE 0
            /\ Count(flags, CriticalFlag)
                  = Cardinality({k \in offsets : Bomb(k) /\ Secs(k) <= 604800})
            /\ Count(flags, WarningFlag)
                  = Cardinality({k \in offsets : Delay(k) /\ Secs(k) > 86400})
            /\ Count(flags, TradingClosedFlag) = IF Closed THEN 1 ELSE 0
            /\ SeqToSet(flags) \subseteq
                  {CriticalFlag, WarningFlag, TradingClosedFlag}
                  \cup {Flag("TIME-BOMB", timeOffsets[k].description) : k \in offsets}
                  \cup {Flag("DELAYED TRADING", timeOffsets[k].description) : k \in offsets}

\* only the run at +7 Days reverted: TIME-BOMB for it, with CRITICAL
C7_Witness ==
    /\ pc = "tt:done"
    /\ tt.currentBlockResult = "Success"
    /\ tt.riskFlags = <<Flag("TIME-BOMB", "+7 Days"), CriticalFlag>>

\* the recorded runs whose status differs from the baseline's
Diverging == {i \in 1..Len(tt.futureResults) :
                 tt.futureResults[i].status # tt.currentBlockResult}

PastOnlyDivergence ==
    /\ Diverging # {}
    /\ \A i \in Diverging : tt.futureResults[i].offsetSeconds < 0

\* C8, as the code has it: isTimeSensitive is true exactly when the outcome
\* of some run, at a future offset or at the past offset -86400, differs from
\* the baseline's; a divergence at the past offset alone makes the result
\* time-sensitive and adds 25 to the aggregate risk.
C8_TimeSensitiveOnAnyDivergence ==
    adv.present =>
        /\ tt.isTimeSensitive <=> Diverging # {}
        /\ PastOnlyDivergence => adv.overallRiskScore = Min(100, cf.riskScore + 25)

\* a scan whose runs differ from the baseline at the past offset only
C8_Witness ==
    /\ adv.present
    /\ PastOnlyDivergence
    /\ tt.isTimeSensitive
    /\ cf.riskScore = 0 /\ adv.overallRiskScore = 25

\* C8, as stated: isTimeSensitive is true exactly when the outcome at some
\* positive offset differs from the baseline's; a divergence at the past
\* offset alone adds nothing to the aggregate risk.
C8_TimeSensitiveOnFutureOnly ==
    adv.present =>
        /\ tt.isTimeSensitive <=>
              \E i \in Diverging : tt.futureResults[i].offsetSeconds > 0
        /\ PastOnlyDivergence => adv.overallRiskScore = cf.riskScore

\* C9: ownershipStatus is Renounced iff the resolved owner is the zero
\* address, Centralized iff it is a non-zero address (then reported as the
\* owner), and Unknown in every other case: an empty, short or over-long
\* owner() return, a failed query.
C9_OwnershipStatus ==
    pc \in {"analyze:bytecode", "analyze:done"} =>
        LET resolved == ownerRet.len \in {20, 32} IN
        /\ report.ownershipStatus = "Renounced"
              <=> (resolved /\ ownerRet.addr = ZeroAddress)
        /\ report.ownershipStatus = "Centralized"
              <=> (resolved /\ ownerRet.addr # ZeroAddress)
        /\ report.ownershipStatus = "Centralized" => report.ownerAddress = ownerRet.addr
        /\ report.ownershipStatus \in {"Renounced", "Centralized", "Unknown"}
        /\ report.ownershipStatus # "Centralized" => report.ownerAddress = NoAddress

\* a 32-byte word with a zero address under non-zero padding: Renounced
C9_Witness ==
    /\ pc = "analyze:done"
    /\ ownerRet = Bytes(32, FALSE, TRUE)
    /\ report.ownershipStatus = "Renounced"

RiskIncreasedFlagged ==
    \E i \in 1..Len(report.flags) : report.flags[i][1] = "Risk Increased"

\* C10: the flag "Risk Increased (+D since last scan)" is on the report
\* exactly when a prior record exists and riskDelta = D >= 20: not for a rise
\* of 1 to 19, and also when the flags are those of the prior record.
C10_RiskIncreasedFromTwenty ==
    (pc \in {"verdict", "done"} /\ drift.present) =>
        (RiskIncreasedFlagged <=> (drift.hasPrevious /\ drift.riskDelta >= 20))

---------------------------------------------------------------------------
\* C11: when the drift analysis runs, with a stored record of the address
\* its risk_delta is the current risk score minus the score of the record at
\* the head of the history list, and has_drift holds exactly when the
\* capability hash of the current flags differs from that record's hash;
\* with no stored record has_drift is false and risk_delta is 0.
C11_DriftAgainstLatestRecord ==
    [][(pc = "history" /\ drift'.present) =>
          IF history = <<>>
          THEN ~drift'.hasDrift /\ drift'.riskDelta = 0
          ELSE /\ drift'.riskDelta = report.riskScore - history[1].riskScore
               /\ drift'.hasDrift <=>
                     (generateCapabilityHash(report.flags) # history[1].capabilityHash)]_vars

C11_Witness ==
    /\ pc = "verdict"
    /\ drift.present /\ drift.hasPrevious
    /\ drift.hasDrift
    /\ drift.riskDelta < 0

---------------------------------------------------------------------------
\* The components below are exercised on their own; the scan's variables
\* then rest

scanVars == <<request, evm, status, ownerRet, report, tt, cf, adv, drift, history,
              ml, response, todo>>

ScanIdle ==
    /\ request = NoRequest
    /\ evm = NoEvm
    /\ status = "none"
    /\ ownerRet = EmptyBytes
    /\ report = NoReport
    /\ tt = NewTimeTravelResult
    /\ cf = NewCounterfactualResult
    /\ adv = NoAdvanced
    /\ drift = NoDrift
    /\ history = <<>>
    /\ ml = NoML
    /\ response = NoResponse
    /\ todo = <<>>

---------------------------------------------------------------------------
\* generateCapabilityHash on flag lists of any order and multiplicity

HashedFlags == {Flag("Simulation Reverted", ""), Flag("Suspicious Function", "mint")}

FlagLists == UNION {[1..k -> HashedFlags] : k \in 0..MaxFlags}

InitHash ==
    /\ pc = "hash"
    /\ ScanIdle
    /\ clock = 0
    /\ oracle = "none"
    /\ scans = <<>>
    /\ tracer = "none"
    /\ proxy = "none"

\* one call of generateCapabilityHash; two results are kept side by side
GenerateCapabilityHash ==
    /\ pc = "hash"
    /\ Len(scans) < 2
    /\ \E flags \in FlagLists :
          scans' = Append(scans, [flags |-> flags,
                                  capabilityHash |-> generateCapabilityHash(flags)])
    /\ UNCHANGED <<pc, scanVars, clock, oracle, tracer, proxy>>

NextHash == GenerateCapabilityHash

SpecHash == InitHash /\ [][NextHash]_vars

\* b is a reordering of a
IsReordering(a, b) ==
    /\ Len(a) = Len(b)
    /\ \E p \in [1..Len(a) -> 1..Len(a)] :
          /\ \A i, j \in 1..Len(a) : p[i] = p[j] => i = j
          /\ \A i \in 1..Len(a) : b[i] = a[p[i]]

---------------------------------------------------------------------------
\* Scans of one address one after the other, the History Store answering:
\* the history block of simulateTransaction, scan after scan, on a contract
\* whose analysis does not change

InitHistory ==
    /\ pc = "history:scan"
    /\ request = [hasTo |-> TRUE, wellFormed |-> TRUE, chain |-> "mainnet"]
    /\ evm = NoEvm
    /\ status = "none"
    /\ ownerRet = EmptyBytes
    /\ report \in PriorReports
    /\ tt = NewTimeTravelResult
    /\ cf = NewCounterfactualResult
    /\ adv = NoAdvanced
    /\ drift = NoDrift
    /\ history = <<>>
    /\ ml = NoML
    /\ response = NoResponse
    /\ todo = <<>>
    /\ clock = 0
    /\ oracle = "none"
    /\ scans = <<>>
    /\ tracer = "none"
    /\ proxy = "none"

\* analyzeDrift, the auto-flag, storeScan; scans keeps what the scan read
\* as its prior record and the record it wrote
HistoryScan ==
    /\ pc = "history:scan"
    /\ Len(scans) < MaxScans
    /\ clock' = clock + 1
    /\ LET d == analyzeDrift(history, report)
           r == PushDriftFlag(report, d)
       IN  /\ drift' = d
           /\ history' = storeScan(history, r, clock')
           /\ scans' = Append(scans, [prior  |-> getLatestScan(history),
                                      record |-> ScanRecord(r, clock')])
    /\ UNCHANGED <<pc, request, evm, status, ownerRet, report, tt, cf, adv, ml,
                   response, todo, oracle, tracer, proxy>>

NextHistory == HistoryScan

SpecHistory == InitHistory /\ [][NextHistory]_vars

---------------------------------------------------------------------------
\* ProxyDetector.resolveImplementationChain on any proxy configuration

\* the contracts of the chain
ProxyAddresses == 1..MaxAddr

\* resolveImplementationChain: maxDepth
maxDepth == 5

\* detectProxy finds no proxy, or no implementationAddress
NoImplementation == 0

\* impl[a]: the implementationAddress detectProxy finds for a; coded: the addresses whose getCode answers
\* with code; hasProvider: a provider was passed
ProxyConfigurations ==
    [impl : [ProxyAddresses -> ProxyAddresses \cup {NoImplementation}],
     coded : SUBSET ProxyAddresses,
     hasProvider : BOOLEAN]

InitProxy ==
    /\ pc = "proxy:walk"
    /\ ScanIdle
    /\ clock = 0
    /\ oracle \in ProxyConfigurations
    /\ scans = <<>>
    /\ tracer = "none"
    /\ \E address \in ProxyAddresses :
          proxy = [chain |-> <<address>>, currentAddress |-> address, depth |-> 0]

\* one turn of the loop that pushes the implementation, loads its code and
\* goes on from it
ResolveHop ==
    /\ pc = "proxy:walk"
    /\ proxy.depth < maxDepth
    /\ LET implementationAddress == oracle.impl[proxy.currentAddress]
       IN  /\ implementationAddress # NoImplementation
           /\ oracle.hasProvider
           /\ implementationAddress \in oracle.coded
           /\ proxy' = [chain |-> Append(proxy.chain, implementationAddress),
                        currentAddress |-> implementationAddress,
                        depth |-> proxy.depth + 1]
    /\ UNCHANGED <<pc, scanVars, clock, oracle, scans, tracer>>

\* the turn that pushes the implementation and breaks: no provider, or
\* getCode gives no code or throws
ResolveBreak ==
    /\ pc = "proxy:walk"
    /\ proxy.depth < maxDepth
    /\ LET implementationAddress == oracle.impl[proxy.currentAddress]
       IN  /\ implementationAddress # NoImplementation
           /\ ~(oracle.hasProvider /\ implementationAddress \in oracle.coded)
           /\ proxy' = [proxy EXCEPT !.chain = Append(@, implementationAddress)]
    /\ pc' = "proxy:done"
    /\ UNCHANGED <<scanVars, clock, oracle, scans, tracer>>

\* the loop ends: the depth is used up, or the current address is no proxy
ResolveEnd ==
    /\ pc = "proxy:walk"
    /\ \/ proxy.depth >= maxDepth
       \/ oracle.impl[proxy.currentAddress] = NoImplementation
    /\ pc' = "proxy:done"
    /\ UNCHANGED <<scanVars, clock, oracle, scans, tracer, proxy>>

NextProxy ==
    \/ ResolveHop
    \/ ResolveBreak
    \/ ResolveEnd

SpecProxy == InitProxy /\ [][NextProxy]_vars

\* C14: for every proxy configuration, cycles included, the implementation
\* chain walked holds at most 5 addresses and no address twice.
C14_ChainShortAndAcyclic ==
    /\ Len(proxy.chain) <= 5
    /\ \A i, j \in 1..Len(proxy.chain) : proxy.chain[i] = proxy.chain[j] => i = j

---------------------------------------------------------------------------
\* The endpoints of a chain, request by request: setupForkedEVM, the
\* provider loop of simulateTransaction, AdvancedSimulator.initialize and
\* createForkedEVM

\* what an endpoint does with eth_chainId (getNetwork) and with getCode
EndpointBehaviours == [chainId : BOOLEAN, getCode : CodeReplies]

NoProvider == 0

\* the loops over rpcUrls that keep the first provider whose getNetwork
\* does not throw; the provider is assigned before getNetwork is awaited
RECURSIVE ProviderLoop(_, _)
ProviderLoop(endpoints, i) ==
    IF i > Len(endpoints) THEN Len(endpoints)
    ELSE IF endpoints[i].chainId THEN i
    ELSE ProviderLoop(endpoints, i + 1)

\* AdvancedSimulator.createForkedEVM: getCode on the active provider alone,
\* raced against 5 s; "0x" is accepted
createForkedEVM(endpoints, activeProvider) ==
    IF activeProvider = NoProvider \/ endpoints[activeProvider].getCode = "timeout"
    THEN NoEvm
    ELSE [hasCode |-> endpoints[activeProvider].getCode = "code", code |-> {},
          success |-> TRUE]

CodeRepliesOf(endpoints) == [e \in 1..Len(endpoints) |-> endpoints[e].getCode]

NoLocals == [activeProvider |-> NoProvider, simulatorProvider |-> NoProvider,
             fork |-> NoEvm]

InitFailover ==
    /\ pc = "failover:setup"
    /\ request \in {r \in Requests : r.hasTo /\ r.wellFormed}
    /\ evm = NoEvm
    /\ status = "none"
    /\ ownerRet = EmptyBytes
    /\ report = NoReport
    /\ tt = NewTimeTravelResult
    /\ cf = NewCounterfactualResult
    /\ adv = NoAdvanced
    /\ drift = NoDrift
    /\ history = <<>>
    /\ ml = NoML
    /\ response = NoResponse
    /\ todo = <<>>
    /\ clock = 0
    /\ oracle \in [Endpoints -> EndpointBehaviours]
    /\ scans = <<NoLocals>>
    /\ tracer = "none"
    /\ proxy = "none"

\* simulateTransaction: setupForkedEVM
FailoverSetup ==
    /\ pc = "failover:setup"
    /\ evm' = setupForkedEVM(request, {}, CodeRepliesOf(oracle))
    /\ pc' = "failover:provider"
    /\ UNCHANGED <<request, status, ownerRet, report, tt, cf, adv, drift, history, ml,
                   response, todo, clock, oracle, scans, tracer, proxy>>

\* simulateTransaction: the loop that picks activeProvider
SelectProvider ==
    /\ pc = "failover:provider"
    /\ scans' = <<[scans[1] EXCEPT !.activeProvider = ProviderLoop(oracle, 1)]>>
    /\ pc' = "failover:initialize"
    /\ UNCHANGED <<scanVars, clock, oracle, tracer, proxy>>

\* AdvancedSimulator.initialize
InitializeSimulator ==
    /\ pc = "failover:initialize"
    /\ scans' = <<[scans[1] EXCEPT !.simulatorProvider = ProviderLoop(oracle, 1)]>>
    /\ pc' = "failover:fork"
    /\ UNCHANGED <<scanVars, clock, oracle, tracer, proxy>>

\* AdvancedSimulator.createForkedEVM for a run of the battery
CreateForkedEVM ==
    /\ pc = "failover:fork"
    /\ scans' = <<[scans[1] EXCEPT !.fork = createForkedEVM(oracle, scans[1].simulatorProvider)]>>
    /\ pc' = "failover:done"
    /\ UNCHANGED <<scanVars, clock, oracle, tracer, proxy>>

NextFailover ==
    \/ FailoverSetup
    \/ SelectProvider
    \/ InitializeSimulator
    \/ CreateForkedEVM

SpecFailover == InitFailover /\ [][NextFailover]_vars

\* the endpoint times out on every request
AlwaysTimesOut(e) == ~oracle[e].chainId /\ oracle[e].getCode = "timeout"

\* the endpoint answers every request
Answers(e) == oracle[e].chainId /\ oracle[e].getCode # "timeout"

\* C15: when the first endpoint times out on every request and the second
\* answers, the scan has what it has with the second endpoint alone
\* configured (EVM, provider, battery fork); and a code request fails only
\* when every endpoint has timed out on it, never on the timeout of one
\* endpoint while another remains untried.
C15_EndpointFailover ==
    pc = "failover:done" =>
        /\ (AlwaysTimesOut(1) /\ Answers(2)) =>
              /\ evm = setupForkedEVM(request, {}, <<oracle[2].getCode>>)
              /\ oracle[scans[1].activeProvider] = <<oracle[2]>>[ProviderLoop(<<oracle[2]>>, 1)]
              /\ scans[1].fork = createForkedEVM(<<oracle[2]>>, ProviderLoop(<<oracle[2]>>, 1))
        /\ ~scans[1].fork.success => \A e \in Endpoints : oracle[e].getCode = "timeout"

---------------------------------------------------------------------------
\* The same transaction scanned twice against a pinned chain state

\* the addresses generateRandomAddress may draw
RandomAddrs == {RandomAddr, "0xrandom2"}

\* MLService.buildFeatureVector: the features computed from the actors'
\* outcomes, the time-travel flags and the report, each as the integers its
\* ratio is made of
buildFeatureVector(a, timeTravel, counterfactual, rep) ==
    LET actors == IF a.present THEN counterfactual.actorResults ELSE <<>>
    IN  [sim_success_rate |->
            <<Len(SelectSeq(actors, LAMBDA r : r.status = "Success")), Len(actors)>>,
         revert_rate |->
            <<Len(SelectSeq(actors, LAMBDA r : r.status = "Reverted")), Len(actors)>>,
         counterfactual_risk |->
            IF a.present
            THEN Min(10, (IF counterfactual.isHoneypot THEN 5 ELSE 0)
                         + (IF counterfactual.hasOwnerPrivileges THEN 3 ELSE 0)
                         + (IF counterfactual.hasWhitelistMechanism THEN 2 ELSE 0))
            ELSE 0,
         time_bomb_risk |-> IF a.present THEN Min(5, Len(timeTravel.riskFlags)) ELSE 0,
         security_report_risk |-> Min(100, rep.riskScore),
         flag_density |-> Min(10, Len(rep.flags))]

\* the pinned state: what the contract does for each caller, and the report
\* SecurityAnalyzer.analyze gives for it
RepeatAddresses == {SenderAddr, OwnerAddr} \cup RandomAddrs

PinnedStates == [behaviour : [RepeatAddresses -> Statuses], report : PriorReports]

\* simulateTransaction from the security analysis on, for the random address
\* drawn and the history found; the classifier is not reachable
ScanOf(o, hist, randomAddress) ==
    LET rep0     == o.report
        actors   == Actors("AdvancedSimulator", SenderAddr, rep0.ownerAddress, NoAddress)
        outcomes == [i \in 1..Len(actors) |->
                        [status |-> IF actors[i].type = "RandomUser"
                                    THEN o.behaviour[randomAddress]
                                    ELSE o.behaviour[actors[i].address],
                         gasUsed |-> 1]]
        timeTravel == runTimeTravelSimulation(
                          [i \in 1..Len(timeOffsets) |-> o.behaviour[SenderAddr]])
        counterfactual == runCounterfactualSimulation("AdvancedSimulator", SenderAddr,
                              rep0.ownerAddress, NoAddress, outcomes)
        a    == runComprehensiveAnalysis(timeTravel, counterfactual)
        rep1 == MergeAdvanced(rep0, a, timeTravel, counterfactual)
        d    == analyzeDrift(hist, rep1)
        rep2 == PushDriftFlag(rep1, d)
    IN  [analysis |-> rep1, report |-> rep2, drift |-> d,
         features |-> buildFeatureVector(a, timeTravel, counterfactual, rep2),
         finalVerdict |-> FinalVerdict(rep2, a, counterfactual, NoML)]

InitRepeat ==
    /\ pc = "repeat:scan"
    /\ request = [hasTo |-> TRUE, wellFormed |-> TRUE, chain |-> "mainnet"]
    /\ evm = NoEvm
    /\ status = "Success"
    /\ ownerRet = EmptyBytes
    /\ report = NoReport
    /\ tt = NewTimeTravelResult
    /\ cf = NewCounterfactualResult
    /\ adv = NoAdvanced
    /\ drift = NoDrift
    /\ history \in PriorHistories
    /\ ml = NoML
    /\ response = NoResponse
    /\ todo = <<>>
    /\ clock = 1
    /\ oracle \in PinnedStates
    /\ scans = <<>>
    /\ tracer = "none"
    /\ proxy = "none"

\* one whole scan of the transaction; scans keeps what each scan returned
\* and the report its analysis had built when the drift analysis ran
RepeatScan ==
    /\ pc = "repeat:scan"
    /\ Len(scans) < 2
    /\ \E randomAddress \in RandomAddrs :
          LET s == ScanOf(oracle, history, randomAddress)
          IN  /\ report' = s.report
              /\ drift' = s.drift
              /\ history' = storeScan(history, s.report, clock)
              /\ response' = [kind |-> "result", finalVerdict |-> s.finalVerdict]
              /\ scans' = Append(scans, [analysis |-> s.analysis,
                                         drift |-> s.drift,
                                         features |-> s.features,
                                         finalVerdict |-> s.finalVerdict,
                                         randomAddress |-> randomAddress])
    /\ UNCHANGED <<pc, request, evm, status, ownerRet, tt, cf, adv, ml, todo, clock,
                   oracle, tracer, proxy>>

NextRepeat == RepeatScan

SpecRepeat == InitRepeat /\ [][NextRepeat]_vars

\* C16: two scans of the same transaction against the same chain state and
\* clock return identical feature vectors and identical verdicts.
C16_RepeatScanIdentical ==
    Len(scans) = 2 =>
        /\ scans[1].features = scans[2].features
        /\ scans[1].finalVerdict = scans[2].finalVerdict

---------------------------------------------------------------------------
\* C17: the flags of the report form a set: at every point of the scan
\* (after the static analysis, after the proxy flag, after the merge of the
\* time-travel, counterfactual and privilege-diff flags, after the drift
\* flag) no flag occurs twice.
C17_FlagsFormASet ==
    \A i, j \in 1..Len(report.flags) : report.flags[i] = report.flags[j] => i = j

\* a finished scan with the proxy flag, a time-travel flag that the battery
\* raised more than once, and the drift flag
C17_Witness ==
    /\ pc = "done"
    /\ Flag("Proxy Contract", "EIP-1967") \in SeqToSet(report.flags)
    /\ Count(tt.riskFlags, CriticalFlag) > 1
    /\ CriticalFlag \in SeqToSet(report.flags)
    /\ \E f \in SeqToSet(report.flags) : f[1] = "Risk Increased"

---------------------------------------------------------------------------
\* Two scans of one address in flight at once: the history block of
\* simulateTransaction, each await a step of its own

\* the History Store's list commands
lPush(list, element) == <<element>> \o list

lTrim(list, cap) == SubSeq(list, 1, Min(Len(list), cap))

ConcurrentScans == 1..2

NoScanLocals(rep) ==
    [pc |-> "analyzeDrift", report |-> rep, prior |-> NoRecord, drift |-> NoDrift,
     record |-> NoRecord]

InitConcurrent ==
    /\ pc = "concurrent"
    /\ request = [hasTo |-> TRUE, wellFormed |-> TRUE, chain |-> "mainnet"]
    /\ evm = NoEvm
    /\ status = "none"
    /\ ownerRet = EmptyBytes
    /\ report = NoReport
    /\ tt = NewTimeTravelResult
    /\ cf = NewCounterfactualResult
    /\ adv = NoAdvanced
    /\ drift = NoDrift
    /\ history \in PriorHistories
    /\ ml = NoML
    /\ response = NoResponse
    /\ todo = <<>>
    /\ clock = 1
    /\ oracle = "none"
    /\ scans \in {[i \in ConcurrentScans |-> NoScanLocals(reps[i])] :
                    reps \in [ConcurrentScans -> PriorReports]}
    /\ tracer = "none"
    /\ proxy = "none"

\* scan i: await ScanHistory.analyzeDrift, then the auto-flag
ConcurrentAnalyzeDrift(i) ==
    /\ scans[i].pc = "analyzeDrift"
    /\ LET d == analyzeDrift(history, scans[i].report)
       IN  scans' = [scans EXCEPT ![i] = [@ EXCEPT !.pc = "lPush",
                                                   !.prior = getLatestScan(history),
                                                   !.drift = d,
                                                   !.report = PushDriftFlag(@, d)]]
    /\ UNCHANGED <<pc, scanVars, clock, oracle, tracer, proxy>>

\* scan i: storeScan builds its record, stamped Date.now(), and pushes it
ConcurrentPush(i) ==
    /\ scans[i].pc = "lPush"
    /\ clock' = clock + 1
    /\ LET record == ScanRecord(scans[i].report, clock')
       IN  /\ history' = lPush(history, record)
           /\ scans' = [scans EXCEPT ![i] = [@ EXCEPT !.pc = "lTrim",
                            !.record = [present |-> TRUE, record |-> record]]]
    /\ UNCHANGED <<pc, request, evm, status, ownerRet, report, tt, cf, adv, drift, ml,
                   response, todo, oracle, tracer, proxy>>

\* scan i: storeScan trims the list
ConcurrentTrim(i) ==
    /\ scans[i].pc = "lTrim"
    /\ history' = lTrim(history, HistoryCap)
    /\ scans' = [scans EXCEPT ![i] = [@ EXCEPT !.pc = "stored"]]
    /\ UNCHANGED <<pc, request, evm, status, ownerRet, report, tt, cf, adv, drift, ml,
                   response, todo, clock, oracle, tracer, proxy>>

NextConcurrent ==
    \E i \in ConcurrentScans :
        \/ ConcurrentAnalyzeDrift(i)
        \/ ConcurrentPush(i)
        \/ ConcurrentTrim(i)

SpecConcurrent == InitConcurrent /\ [][NextConcurrent]_vars

\* C18: the history operations of concurrent scans of one address are
\* serialized, so that for every two consecutive records of the list the
\* newer record's scan computed its risk_delta against the older record.
C18_DeltaAgainstRecordBelow ==
    \A k \in 1..(Len(history) - 1) :
        \A i \in ConcurrentScans :
            (scans[i].record.present /\ scans[i].record.record = history[k])
                => scans[i].prior = [present |-> TRUE, record |-> history[k + 1]]

\* C19: when two consecutive scans of an address produce the same analysis
\* flags and the same risk score, the second scan reports has_drift = false
\* with no new and no removed flags, also when the first scan received the
\* "Risk Increased" flag before its record was stored.
C19_NoDriftWhenUnchanged ==
    (/\ Len(scans) = 2
     /\ scans[1].analysis.flags = scans[2].analysis.flags
     /\ scans[1].analysis.riskScore = scans[2].analysis.riskScore)
        => /\ ~scans[2].drift.hasDrift
           /\ scans[2].drift.newFlags = <<>>
           /\ scans[2].drift.removedFlags = <<>>

---------------------------------------------------------------------------
\* OpcodeTracer.handleStep on any stream of opcodes

\* the opcodes handleStep tells apart, ADD standing for every other one
Opcodes == {"CALLER", "ORIGIN", "TIMESTAMP", "SLOAD", "EQ", "PUSH1", "DUP1", "ADD"}

Comparisons == {"EQ", "LT", "GT", "SGT", "SLT"}

\* the opcodes that leave pushedSender as it is
DataManipulation == {"PUSH1", "PUSH2", "PUSH20", "PUSH32", "DUP1", "DUP2"}

StorageReadAfterSender ==
    "CHECK: Storage read after Sender load - Potential Whitelist/Balance check"

NewTracer ==
    [steps |-> <<>>, events |-> <<>>, touchedStorage |-> {}, usesMsgSender |-> FALSE,
     usesTxOrigin |-> FALSE, usesTimestamp |-> FALSE, lastOpcode |-> "null",
     pushedSender |-> FALSE]

\* handleStep: the step is recorded (its pc is its position in the stream),
\* the taints and checks are emitted in the order of the code, the transient
\* flag is reset at the end of the step
handleStep(t, opcode, slot) ==
    LET pcOf == Len(t.steps)
        sent == t.pushedSender \/ opcode = "CALLER"
        e1   == IF opcode = "CALLER"
                THEN Append(t.events, <<"TAINT: msg.sender loaded at PC", pcOf>>)
                ELSE IF opcode = "ORIGIN"
                THEN Append(t.events, <<"TAINT: tx.origin loaded at PC", pcOf>>)
                ELSE t.events
        e2   == IF opcode = "SLOAD" /\ sent
                THEN Append(e1, <<StorageReadAfterSender>>) ELSE e1
        e3   == IF opcode = "TIMESTAMP"
                THEN Append(e2, <<"TAINT: block.timestamp loaded at PC", pcOf>>) ELSE e2
        e4   == IF opcode \in Comparisons /\ t.lastOpcode \in {"CALLER", "ORIGIN"}
                THEN Append(e3, <<"CHECK: Comparing Sender address">>) ELSE e3
        e5   == IF opcode \in Comparisons /\ t.lastOpcode = "TIMESTAMP"
                THEN Append(e4, <<"CHECK: Comparing Timestamp">>) ELSE e4
    IN  [steps |-> Append(t.steps, opcode),
         events |-> e5,
         touchedStorage |-> IF opcode = "SLOAD" THEN t.touchedStorage \cup {slot}
                            ELSE t.touchedStorage,
         usesMsgSender |-> t.usesMsgSender \/ opcode = "CALLER",
         usesTxOrigin |-> t.usesTxOrigin \/ opcode = "ORIGIN",
         usesTimestamp |-> t.usesTimestamp \/ opcode = "TIMESTAMP",
         lastOpcode |-> opcode,
         pushedSender |-> IF opcode \in DataManipulation THEN sent ELSE FALSE]

InitTrace ==
    /\ pc = "trace"
    /\ ScanIdle
    /\ clock = 0
    /\ oracle = "none"
    /\ scans = <<>>
    /\ tracer = NewTracer
    /\ proxy = "none"

\* the EVM's step event: one opcode reaches handleStep
HandleStep ==
    /\ pc = "trace"
    /\ Len(tracer.steps) < MaxSteps
    /\ \E opcode \in Opcodes : tracer' = handleStep(tracer, opcode, "0")
    /\ UNCHANGED <<pc, scanVars, clock, oracle, scans, proxy>>

NextTrace == HandleStep

SpecTrace == InitTrace /\ [][NextTrace]_vars

\* the SLOAD at position j follows a CALLER with nothing but PUSH and DUP
\* opcodes in between
SenderHeldAt(j) ==
    \E i \in 1..(j - 1) :
        /\ tracer.steps[i] = "CALLER"
        /\ \A k \in (i + 1)..(j - 1) : tracer.steps[k] \in DataManipulation

\* C20: for every opcode stream, an SLOAD emits the storage-read-after-sender
\* event exactly when a CALLER occurred earlier with only PUSH or DUP opcodes
\* between the two; CALLER, PUSH1, SLOAD emits it.
C20_StorageReadAfterSender ==
    Len(SelectSeq(tracer.events, LAMBDA e : e = <<StorageReadAfterSender>>))
        = Cardinality({j \in 1..Len(tracer.steps) :
                          tracer.steps[j] = "SLOAD" /\ SenderHeldAt(j)})

\* ---------------------------------------------------------------------
\* The actor battery when runs have no outcome (checked under SpecCF)
\* ---------------------------------------------------------------------

HoneypotFlag == Flag("CRITICAL HONEYPOT", "Owner can execute, but users CANNOT")

UnusualFlag == Flag("UNUSUAL", "Users can execute but owner cannot - verify logic")

\* an actor of a type other than Owner has an outcome in the result
NonOwnerOutcome ==
    \E i \in 1..Len(cf.actorResults) : cf.actorResults[i].actorType # "Owner"

\* an Owner actor has the outcome st in the result
OwnerOutcome(st) ==
    \E i \in 1..Len(cf.actorResults) :
        cf.actorResults[i].actorType = "Owner" /\ cf.actorResults[i].status = st

\* C21: when no non-owner actor produced an outcome, the honeypot rule does
\* not fire on the empty group: isHoneypot stays false and no CRITICAL
\* HONEYPOT flag is raised, even if the Owner run succeeded.
C21_NoHoneypotOnEmptyGroup ==
    (pc = "cf:done" /\ ~NonOwnerOutcome) =>
        /\ ~cf.isHoneypot
        /\ HoneypotFlag \notin SeqToSet(cf.riskFlags)

\* C28: the UNUSUAL flag and its Medium privilege difference are emitted
\* only when at least one Owner actor was simulated and reverted.
C28_UnusualNeedsRevertedOwner ==
    (pc = "cf:done"
     /\ (\/ UnusualFlag \in SeqToSet(cf.riskFlags)
         \/ \E i \in 1..Len(cf.privilegeDiff) : cf.privilegeDiff[i].severity = "Medium"))
        => OwnerOutcome("Reverted")

\* ---------------------------------------------------------------------
\* simulateTransaction from the step listener to the security report: the
\* one EVM instance, the calls made on it, the proxy probe, the re-homing
\* and the static analysis (evmexecutor.ts 112-203)
\* ---------------------------------------------------------------------

\* a 32-byte word holding an address in its low 20 bytes
Word(addr) ==
    [len |-> 32, allZero |-> addr = ZeroAddress, tailZero |-> addr = ZeroAddress,
     addr |-> addr]

\* how detectProxy can recognise the code at an address: not at all, by the
\* EIP-1167 byte pattern, or by the answer of implementation()
ProxyKinds == {"none", "Minimal", "EIP-897"}

\* the chain as the scan finds it: the contract at address a delegates to the
\* contract at a + 1 when kind[a] is not "none" (the last address holds no
\* proxy); owner[a] is the owner slot in a's own storage; the code at a holds
\* the selector of catalogue entry a; hasProvider: some endpoint answered
\* getNetwork
ProbeWorlds ==
    { w \in [kind : [ProxyAddresses -> ProxyKinds],
             owner : [ProxyAddresses -> {ZeroAddress, OwnerAddr}],
             hasProvider : BOOLEAN] : w.kind[MaxAddr] = "none" }

ImplementationOf(w, a) == IF w.kind[a] = "none" THEN NoImplementation ELSE a + 1

CodeAt(a) == {a}

\* the opcodes a call is modelled to execute
CallOpcodes == {"SSTORE", "CALL", "CALLER"}

RECURSIVE StreamsOfLength(_)
StreamsOfLength(n) ==
    IF n = 0 THEN {<<>>}
    ELSE {Append(s, o) : s \in StreamsOfLength(n - 1), o \in CallOpcodes}

\* the opcode streams of the simulated transaction
UserStreams == UNION {StreamsOfLength(n) : n \in 0..MaxSteps}

\* the opcodes a selector probe executes in the target's dispatcher
ProbeStream == <<"CALLER", "SLOAD">>

\* the counters and the tracer behind evm.events.on('step', ...)
NewListener ==
    [instructionCount |-> 0, sstoreCount |-> 0, callCount |-> 0, tracer |-> NewTracer]

\* the step listener: one opcode
OnStep(l, opcode) ==
    [instructionCount |-> l.instructionCount + 1,
     sstoreCount |-> l.sstoreCount + (IF opcode = "SSTORE" THEN 1 ELSE 0),
     callCount |-> l.callCount
                   + (IF opcode \in {"CALL", "DELEGATECALL", "STATICCALL", "CALLCODE"}
                      THEN 1 ELSE 0),
     tracer |-> handleStep(l.tracer, opcode, "0")]

\* evm.runCall on the instance the listener is attached to: every opcode of
\* the call raises the step event
RECURSIVE RunSteps(_, _, _)
RunSteps(l, stream, i) ==
    IF i > Len(stream) THEN l
    ELSE RunSteps(OnStep(l, stream[i]), stream, i + 1)

\* a probe's steps: the target's code runs only if the instance holds it
ProbeSteps(l, code, target) ==
    IF target \in code THEN RunSteps(l, ProbeStream, 1) ELSE l

\* txParams.to
To == 1

\* the locals of simulateTransaction and the state of its EVM instance: code
\* is the set of addresses whose code the instance holds, storage the owner
\* slot the instance holds for each address (setupForkedEVM loads code only);
\* atCallEnd remembers the listener as executeCall left it
NoProbeLocals ==
    [status |-> "none",
     code |-> {To},
     storage |-> [a \in ProxyAddresses |-> ZeroAddress],
     atCallEnd |-> NewListener,
     isProxy |-> FALSE,
     implementationAddress |-> NoImplementation,
     addressToAnalyze |-> To,
     rpcOwnerTarget |-> NoImplementation,
     securityReport |-> NoReport,
     tracingEvents |-> <<>>,
     instructionCount |-> 0, sstoreCount |-> 0, callCount |-> 0]

\* one evm.runCall on the instance, as the call log keeps it; dirty: the
\* instance's storage had been written before the call began
CallEntry(to, data, locals) ==
    [to |-> to, data |-> data,
     dirty |-> locals.storage # NoProbeLocals.storage]

InitProbe ==
    /\ pc = "probe:call"
    /\ ScanIdle
    /\ clock = 0
    /\ oracle \in ProbeWorlds
    /\ scans = <<>>
    /\ tracer = NewListener
    /\ proxy = NoProbeLocals

\* executeCall of the simulated transaction; claims: an SSTORE of a
\* successful run wrote the sender into the owner slot of the target
ProbeExecuteCall ==
    /\ pc = "probe:call"
    /\ \E stream \in UserStreams, st \in Statuses, claims \in BOOLEAN :
          /\ tracer' = RunSteps(tracer, stream, 1)
          /\ proxy' = [proxy EXCEPT
                !.status = st,
                !.storage[To] = IF st = "Success" /\ claims /\ "SSTORE" \in SeqToSet(stream)
                                THEN SenderAddr ELSE @,
                !.atCallEnd = tracer']
    /\ scans' = Append(scans, CallEntry(To, "tx", proxy))
    /\ pc' = "probe:detect"
    /\ UNCHANGED <<scanVars, clock, oracle>>

\* ProxyDetector.detectProxy(evm, to, activeProvider): the byte pattern of a
\* minimal proxy is found in the code; otherwise checkEIP897 calls
\* implementation() on the same instance
ProbeDetectProxy ==
    /\ pc = "probe:detect"
    /\ IF oracle.kind[To] = "Minimal"
       THEN /\ proxy' = [proxy EXCEPT !.isProxy = TRUE,
                                      !.implementationAddress = ImplementationOf(oracle, To)]
            /\ UNCHANGED <<tracer, scans>>
       ELSE /\ tracer' = ProbeSteps(tracer, proxy.code, To)
            /\ scans' = Append(scans, CallEntry(To, "implementation()", proxy))
            /\ proxy' = [proxy EXCEPT
                  !.isProxy = oracle.kind[To] = "EIP-897",
                  !.implementationAddress = ImplementationOf(oracle, To)]
    /\ pc' = "probe:rehome"
    /\ UNCHANGED <<scanVars, clock, oracle>>

\* the implementation's code is fetched and injected, and the analysis is
\* re-homed to it
ProbeRehome ==
    /\ pc = "probe:rehome"
    /\ \E implCode \in CodeReplies :
          IF /\ proxy.isProxy /\ proxy.implementationAddress # NoImplementation
             /\ oracle.hasProvider /\ implCode = "code"
          THEN proxy' = [proxy EXCEPT
                  !.code = @ \cup {proxy.implementationAddress},
                  !.addressToAnalyze = proxy.implementationAddress]
          ELSE proxy' = proxy
    /\ pc' = "probe:analyze"
    /\ UNCHANGED <<scanVars, clock, oracle, scans, tracer>>

\* SecurityAnalyzer.analyze(evm, addressToAnalyze, { status }, activeProvider)
\* and the lines that attach the tracing events and return the counters
ProbeSecurityAnalysis ==
    /\ pc = "probe:analyze"
    /\ \E rpcOk \in BOOLEAN :
          LET target  == proxy.addressToAnalyze
              evmRet  == IF target \in proxy.code THEN Word(proxy.storage[target])
                         ELSE EmptyBytes
              rpc     == [ok |-> rpcOk,
                          ret |-> IF rpcOk THEN Word(oracle.owner[target]) ELSE EmptyBytes]
              asked   == (evmRet.len = 0 \/ evmRet.allZero) /\ oracle.hasProvider
              l       == ProbeSteps(tracer, proxy.code, target)
          IN  /\ tracer' = l
              /\ scans' = Append(scans, CallEntry(target, "owner()", proxy))
              /\ proxy' = [proxy EXCEPT
                    !.rpcOwnerTarget = IF asked THEN target ELSE @,
                    !.securityReport =
                        Analyze(proxy.status, FALSE, evmRet, oracle.hasProvider, rpc,
                                IF target \in proxy.code THEN CodeAt(target) ELSE {}),
                    !.tracingEvents = l.tracer.events,
                    !.instructionCount = l.instructionCount,
                    !.sstoreCount = l.sstoreCount,
                    !.callCount = l.callCount]
    /\ pc' = "probe:done"
    /\ UNCHANGED <<scanVars, clock, oracle>>

NextProbe ==
    \/ ProbeExecuteCall
    \/ ProbeDetectProxy
    \/ ProbeRehome
    \/ ProbeSecurityAnalysis

SpecProbe == InitProbe /\ [][NextProbe]_vars

\* the analysis was re-homed to an implementation
Rehomed == pc = "probe:done" /\ proxy.addressToAnalyze # To

\* C22: when the scanned address is a proxy whose implementation is itself a
\* proxy, the address whose bytecode the static analysis scans is the final
\* implementation, never the intermediate one.
C22_ScansFinalImplementation ==
    Rehomed => oracle.kind[proxy.addressToAnalyze] = "none"

\* C23: after re-homing, the owner() query in the EVM and its fallback call
\* on the chain are made against the proxy's address, and the owner reported
\* is the one of the proxy's storage.
C23_OwnerReadFromProxy ==
    Rehomed =>
        /\ \A i \in 1..Len(scans) : scans[i].data = "owner()" => scans[i].to = To
        /\ proxy.rpcOwnerTarget \in {NoImplementation, To}
        /\ proxy.securityReport.ownerAddress
               \in {NoAddress, oracle.owner[To], proxy.storage[To]}

\* C24: the EVM instance executes one call only: no probe runs on the
\* instance that executed the simulated transaction, so no probe sees storage
\* that transaction wrote.
C24_OneCallPerInstance ==
    /\ Len(scans) <= 1
    /\ \A i \in 1..Len(scans) : scans[i].data # "tx" => ~scans[i].dirty

\* C29: the counters of the response and the tracing events of the report
\* cover the opcode steps of the simulated transaction and nothing else.
C29_CountsCoverUserCallOnly ==
    pc = "probe:done" =>
        /\ proxy.instructionCount = proxy.atCallEnd.instructionCount
        /\ proxy.sstoreCount = proxy.atCallEnd.sstoreCount
        /\ proxy.callCount = proxy.atCallEnd.callCount
        /\ proxy.tracingEvents = proxy.atCallEnd.tracer.events

\* ---------------------------------------------------------------------
\* The requests a scan waits for: what bounds each wait
\* ---------------------------------------------------------------------

\* the awaited requests of a scan, in the order they are issued; raced: the
\* await is a Promise.race against a 5000 ms timer
ScanRequests == <<
    [call |-> "getCode",               raced |-> TRUE],
    [call |-> "getNetwork",            raced |-> FALSE],
    [call |-> "getCode:implementation", raced |-> FALSE],
    [call |-> "call:owner()",          raced |-> FALSE],
    [call |-> "getStorage",            raced |-> FALSE],
    [call |-> "fetch:/analyze",        raced |-> FALSE] >>

\* what the far end does with a request it accepted: it answers, it fails
\* the request, or it never responds
FarEnds == {"answers", "fails", "silent"}

InitRequests ==
    /\ pc = "req:issue"
    /\ ScanIdle
    /\ clock = 1
    /\ oracle \in [1..Len(ScanRequests) -> FarEnds]
    /\ scans = <<>>
    /\ tracer = "none"
    /\ proxy = "none"

\* the request is sent and awaited
IssueRequest ==
    /\ pc = "req:issue"
    /\ clock <= Len(ScanRequests)
    /\ pc' = "req:await"
    /\ UNCHANGED <<scanVars, clock, oracle, scans, tracer, proxy>>

\* the promise settles: resolved, or rejected and caught
RequestSettles ==
    /\ pc = "req:await"
    /\ oracle[clock] # "silent"
    /\ scans' = Append(scans, IF oracle[clock] = "answers" THEN "resolved" ELSE "caught")
    /\ clock' = clock + 1
    /\ pc' = "req:issue"
    /\ UNCHANGED <<scanVars, oracle, tracer, proxy>>

\* the 5000 ms timer of the race rejects first
RequestTimesOut ==
    /\ pc = "req:await"
    /\ ScanRequests[clock].raced
    /\ oracle[clock] = "silent"
    /\ scans' = Append(scans, "RPC Timeout")
    /\ clock' = clock + 1
    /\ pc' = "req:issue"
    /\ UNCHANGED <<scanVars, oracle, tracer, proxy>>

\* the response is returned
ScanReturns ==
    /\ pc = "req:issue"
    /\ clock > Len(ScanRequests)
    /\ pc' = "req:done"
    /\ UNCHANGED <<scanVars, clock, oracle, scans, tracer, proxy>>

NextRequests ==
    \/ IssueRequest
    \/ RequestSettles
    \/ RequestTimesOut
    \/ ScanReturns

\* the event loop runs every continuation that is ready: a settled promise
\* and a fired timer are eventually handled
SpecRequests == InitRequests /\ [][NextRequests]_vars /\ WF_vars(NextRequests)

\* C25: every scan terminates: a far end that accepts a request and never
\* responds cannot block the scan forever.
C25_EveryScanTerminates == <>(pc = "req:done")

\* ---------------------------------------------------------------------
\* The risk score of a scan no rule-based condition fires on (checked
\* under Spec)
\* ---------------------------------------------------------------------

\* the scan answered with a verdict and none of the rule-based conditions held
NoRuleFired ==
    /\ pc = "done"
    /\ response.kind = "result"
    /\ ~ruleBasedIsScam(report, adv, cf)

Story(title, severity, namesOwner) ==
    [title |-> title, severity |-> severity, namesOwner |-> namesOwner]

\* trace.events.slice(-5).some(e => e.includes("CHECK: Storage read"))
HasStorageCheck(events) ==
    \E i \in 1..Len(events) :
        /\ i > Len(events) - 5
        /\ events[i] = <<StorageReadAfterSender>>

\* ExplanationEngine.explainRevert
explainRevert(trace) ==
    IF trace.usesMsgSender \/ trace.usesTxOrigin
    THEN IF HasStorageCheck(trace.events)
         THEN Story("Access Denied (Whitelist/Owner)", "High", TRUE)
         ELSE Story("Sender Restriction", "Medium", FALSE)
    ELSE IF trace.usesTimestamp
    THEN Story("Time-Lock Active", "High", FALSE)
    ELSE Story("Transaction Failed", "Low", FALSE)

\* ExplanationEngine.generateExplanation
generateExplanation(trace, simulationStatus) ==
    IF simulationStatus = "Reverted" THEN explainRevert(trace)
    ELSE IF trace.usesTimestamp
    THEN Story("Time-Sensitive Logic Detected", "Medium", FALSE)
    ELSE Story("Security Check Passed", "Safe", FALSE)

\* the canned story of the scam family the battery found
CannedStory(timeTravel, counterfactual) ==
    IF counterfactual.hasOwnerPrivileges
    THEN Story("Privilege Abuse Detected", "High", TRUE)
    ELSE IF timeTravel.isTimeSensitive
    THEN Story("Hidden Time-Lock", "High", FALSE)
    ELSE Story("Hidden Revert Mechanism", "High", FALSE)

\* the reconciliation that leaves every story as the trace gave it
ReconcileNever(story, a, timeTravel, counterfactual) == story

\* [PHASE 3 Refinement]: a Safe story is overwritten when the battery found a
\* scam
Reconcile(story, a, timeTravel, counterfactual) ==
    IF a.present /\ a.isScam /\ story.severity = "Safe"
    THEN CannedStory(timeTravel, counterfactual)
    ELSE story

\* the opcodes of the baseline run that the stories depend on
StoryOpcodes == {"CALLER", "SLOAD", "TIMESTAMP"}

RECURSIVE StoryStreams(_)
StoryStreams(n) ==
    IF n = 0 THEN {<<>>}
    ELSE StoryStreams(n - 1)
         \cup {Append(s, o) : s \in {t \in StoryStreams(n - 1) : Len(t) = n - 1},
                              o \in StoryOpcodes}

\* the trace the tracer holds after the baseline run
TraceOf(stream) == RunSteps(NewListener, stream, 1).tracer

\* the outcomes of the actors' runs the stories are checked on
StoryOwners == {NoAddress, OwnerAddr}

NoStory == [mechanismStory |-> Story("", "none", FALSE)]

InitStory ==
    /\ pc = "story:trace"
    /\ request = NoRequest
    /\ evm = NoEvm
    /\ status \in Statuses
    /\ ownerRet = EmptyBytes
    /\ report = NoStory
    /\ tt = NewTimeTravelResult
    /\ cf = NewCounterfactualResult
    /\ adv = NoAdvanced
    /\ drift = NoDrift
    /\ history = <<>>
    /\ ml = NoML
    /\ response = NoResponse
    /\ todo = <<>>
    /\ clock = 0
    /\ oracle = "none"
    /\ scans = <<>>
    /\ tracer \in {TraceOf(s) : s \in StoryStreams(MaxSteps)}
    /\ proxy = "none"

\* const mechanismStory = ExplanationEngine.generateExplanation(traceResult, status)
GenerateStory ==
    /\ pc = "story:trace"
    /\ report' = [mechanismStory |-> generateExplanation(tracer, status)]
    /\ pc' = "story:battery"
    /\ UNCHANGED <<request, evm, status, ownerRet, tt, cf, adv, drift, history, ml, response,
                   todo, elsewhere>>

\* runComprehensiveAnalysis returns
StoryBattery ==
    /\ pc = "story:battery"
    /\ \E ownerAddress \in StoryOwners, runs \in TimelineRuns :
          LET actors == Actors("AdvancedSimulator", SenderAddr, ownerAddress, NoAddress)
          IN  \E outcomes \in ScanOutcomes(actors) :
                 LET timeTravel     == runTimeTravelSimulation(runs)
                     counterfactual == runCounterfactualSimulation("AdvancedSimulator",
                                           SenderAddr, ownerAddress, NoAddress, outcomes)
                 IN  /\ (runs[1] = NoRun) <=> (outcomes[1].status = NoRun)
                     /\ tt' = timeTravel
                     /\ cf' = counterfactual
                     /\ adv' = runComprehensiveAnalysis(timeTravel, counterfactual)
    /\ pc' = "story:reconcile"
    /\ UNCHANGED <<request, evm, status, ownerRet, report, drift, history, ml, response, todo,
                   elsewhere>>

\* runComprehensiveAnalysis throws: advancedAnalysis stays null
StoryBatteryFails ==
    /\ pc = "story:battery"
    /\ pc' = "story:reconcile"
    /\ UNCHANGED <<request, evm, status, ownerRet, report, tt, cf, adv, drift, history, ml,
                   response, todo, elsewhere>>

\* the reconciliation of the story with the battery
ReconcileStory ==
    /\ pc = "story:reconcile"
    /\ report' = [mechanismStory |-> Reconcile(report.mechanismStory, adv, tt, cf)]
    /\ pc' = "story:done"
    /\ UNCHANGED <<request, evm, status, ownerRet, tt, cf, adv, drift, history, ml, response,
                   todo, elsewhere>>

NextStory ==
    \/ GenerateStory
    \/ StoryBattery
    \/ StoryBatteryFails
    \/ ReconcileStory

SpecStory == InitStory /\ [][NextStory]_vars

MaxClients == 2

RedisCallers == 1..3

NoClient == 0

ConnectError == -1

\* the statics of RedisClient, with the clients created and connected so far
NewRedisClient ==
    [instance |-> NoClient, isConnecting |-> FALSE, created |-> 0, connected |-> {}]

IdleCaller == [pc |-> "idle", client |-> NoClient, result |-> NoClient]

InitRedis ==
    /\ pc = "redis"
    /\ ScanIdle
    /\ clock = 0
    /\ oracle = NewRedisClient
    /\ scans = [i \in RedisCallers |-> IdleCaller]
    /\ tracer = "none"
    /\ proxy = "none"

\* connect() up to its first await, entered by a call or by the recursive
\* call after the 100 ms wait: the shared instance is returned, or the caller
\* waits for the attempt under way, or it starts an attempt of its own
ConnectEnter(i) ==
    /\ pc = "redis"
    /\ scans[i].pc \in {"idle", "waiting"}
    /\ IF oracle.instance # NoClient
       THEN /\ scans' = [scans EXCEPT ![i].pc = "returned", ![i].result = oracle.instance]
            /\ UNCHANGED oracle
       ELSE IF oracle.isConnecting
       THEN /\ scans[i].pc = "idle"
            /\ scans' = [scans EXCEPT ![i].pc = "waiting"]
            /\ UNCHANGED oracle
       ELSE /\ oracle.created < MaxClients
            /\ oracle' = [oracle EXCEPT !.isConnecting = TRUE, !.created = @ + 1]
            /\ scans' = [scans EXCEPT ![i].pc = "connecting",
                                      ![i].client = oracle.created + 1]
    /\ UNCHANGED <<pc, scanVars, clock, tracer, proxy>>

\* a failed attempt whose flag is left set
ConnectFailsNoFinally(i) ==
    /\ pc = "redis"
    /\ scans[i].pc = "connecting"
    /\ scans' = [scans EXCEPT ![i].pc = "threw", ![i].result = ConnectError]
    /\ UNCHANGED <<pc, scanVars, clock, oracle, tracer, proxy>>

\* await client.connect() resolves: the instance is published, the flag reset
ConnectSucceeds(i) ==
    /\ pc = "redis"
    /\ scans[i].pc = "connecting"
    /\ oracle' = [oracle EXCEPT !.instance = scans[i].client,
                                !.connected = @ \cup {scans[i].client},
                                !.isConnecting = FALSE]
    /\ scans' = [scans EXCEPT ![i].pc = "returned", ![i].result = scans[i].client]
    /\ UNCHANGED <<pc, scanVars, clock, tracer, proxy>>

\* await client.connect() rejects: the error is rethrown, the flag reset
ConnectFails(i) ==
    /\ pc = "redis"
    /\ scans[i].pc = "connecting"
    /\ oracle' = [oracle EXCEPT !.isConnecting = FALSE]
    /\ scans' = [scans EXCEPT ![i].pc = "threw", ![i].result = ConnectError]
    /\ UNCHANGED <<pc, scanVars, clock, tracer, proxy>>

\* the caller's operation ends; its next operation calls connect() again
CallerDone(i) ==
    /\ pc = "redis"
    /\ scans[i].pc \in {"returned", "threw"}
    /\ scans' = [scans EXCEPT ![i] = IdleCaller]
    /\ UNCHANGED <<pc, scanVars, clock, oracle, tracer, proxy>>

NextRedis ==
    \E i \in RedisCallers :
        \/ ConnectEnter(i)
        \/ ConnectSucceeds(i)
        \/ ConnectFails(i)
        \/ CallerDone(i)

SpecRedis == InitRedis /\ [][NextRedis]_vars

\* the callers whose attempt is in flight
InFlight == {i \in RedisCallers : scans[i].pc = "connecting"}

\* C30: under any interleaving of concurrent connect() calls, at most one
\* client is connected and at most one attempt is in flight, every caller
\* that returns holds the shared connected instance (the others got the
\* error), and isConnecting is true exactly while an attempt is in flight.
C30_SingleSharedClient ==
    /\ Cardinality(oracle.connected) <= 1
    /\ Cardinality(InFlight) <= 1
    /\ \A i \in RedisCallers :
          /\ scans[i].pc = "returned" =>
                (scans[i].result = oracle.instance /\ scans[i].result \in oracle.connected)
          /\ scans[i].pc = "threw" => scans[i].result = ConnectError
    /\ oracle.isConnecting <=> InFlight # {}

\* one attempt failed, a later one connected, and two callers hold its client
C30_Witness ==
    /\ oracle.created = 2
    /\ oracle.isConnecting = FALSE
    /\ \E i, j \in RedisCallers :
          /\ i # j
          /\ scans[i].pc = "returned" /\ scans[j].pc = "returned"
          /\ scans[i].result = 2 /\ scans[j].result = 2

====
